---- MODULE Spec2Model ----
(***************************************************************************)
(* State-machine model of the OpenCog integration of Bot Framework         *)
(* Composer: the CognitiveOrchestrator (reasoning engine) and the          *)
(* SynergyArchitecture (synergy control loop).                             *)
(*                                                                         *)
(* Numbers.  Every real-valued quantity of the source (truth values,       *)
(* synergy, learning rate, load, efficiency ...) is a fixed-point integer  *)
(* in units of 1/SCALE: 0.85 is 8500.  Products are divided by SCALE,      *)
(* quotients truncate.  NaN (the result of 0/0 in the source) is the       *)
(* distinguished value NaN.                                                *)
(*                                                                         *)
(* Scheduling.  JavaScript runs one job at a time.  A synchronous method   *)
(* is one action.  An async method runs synchronously up to its next       *)
(* `await`; its continuation is a job on the microtask queue, which is     *)
(* FIFO.  processInput is therefore a sequence of segments, one per await, *)
(* and other calls of the public interface may run between two segments.   *)
(***************************************************************************)
EXTENDS Integers, Sequences, FiniteSets, TLC

(***************************************************************************)
(* Fixed-point arithmetic and small helpers                                *)
(***************************************************************************)
SCALE == 100 * 100

Mul(a, b) == (a * b) \div SCALE

Min(a, b) == IF a <= b THEN a ELSE b

Max(a, b) == IF a >= b THEN a ELSE b

\* The IEEE NaN that 0/0 yields; no other value of the model is this low
NaN == 0 - SCALE * SCALE

IsNaN(x) == x = NaN

\* Mutant: the upper limit alone
ClampUpper(x) == IF IsNaN(x) THEN NaN ELSE Min(SCALE, x)

\* Math.max(0, Math.min(1, x)): a NaN comes back as NaN
ClampUnit(x) == IF IsNaN(x) THEN NaN ELSE Max(0, Min(SCALE, x))

Range(s) == {s[i] : i \in 1..Len(s)}

InSeq(x, s) == \E i \in 1..Len(s) : s[i] = x

RECURSIVE SumSeq(_)
SumSeq(s) == IF s = <<>> THEN 0 ELSE Head(s) + SumSeq(Tail(s))

\* Number.prototype.toFixed(1) applied to (x * 100): tenths of a percent, rounded.
ToFixed1Pct(x) == (x + 5) \div 10

\* An insertion-ordered collection with unique members (a JavaScript Set).
SetAdd(s, x) == IF InSeq(x, s) THEN s ELSE Append(s, x)

RECURSIVE SetAddAll(_, _)
SetAddAll(s, xs) == IF xs = <<>> THEN s ELSE SetAddAll(SetAdd(s, Head(xs)), Tail(xs))

\* Array.prototype.slice(0, n) and slice(-n)
SliceFirst(s, n) == SubSeq(s, 1, Min(n, Len(s)))

SliceLast(s, n) == SubSeq(s, Max(1, Len(s) - n + 1), Len(s))

\* An insertion-ordered keyed store (a JavaScript Map whose values carry their key in .id)
MapHas(m, id) == \E i \in 1..Len(m) : m[i].id = id

MapIndex(m, id) == CHOOSE i \in 1..Len(m) : m[i].id = id

MapGet(m, id) == m[MapIndex(m, id)]

MapSet(m, v) ==
  IF MapHas(m, v.id) THEN [m EXCEPT ![MapIndex(m, v.id)] = v] ELSE Append(m, v)

MapDelete(m, id) == SelectSeq(m, LAMBDA v : v.id # id)

MapKeys(m) == [i \in 1..Len(m) |-> m[i].id]

(***************************************************************************)
(* Text: a string is a sequence of one-character strings                   *)
(***************************************************************************)
LowerChar(c) ==
  CASE c = "H" -> "h"
    [] c = "I" -> "i"
    [] c = "B" -> "b"
    [] c = "T" -> "t"
    [] c = "C" -> "c"
    [] c = "A" -> "a"
    [] OTHER -> c

ToLowerCase(s) == [i \in 1..Len(s) |-> LowerChar(s[i])]

Includes(s, w) ==
  \E i \in 0..(Len(s) - Len(w)) : SubSeq(s, i + 1, i + Len(w)) = w

NoText == [kind |-> "absent", chars |-> <<>>, num |-> 0]

Str(chars) == [kind |-> "string", chars |-> chars, num |-> 0]

Num(n) == [kind |-> "number", chars |-> <<>>, num |-> n]

\* JavaScript truthiness of input?.text
Truthy(text) ==
  CASE text.kind = "string" -> text.chars # <<>>
    [] text.kind = "number" -> text.num # 0
    [] OTHER -> FALSE

(***************************************************************************)
(* Seed data of the reasoning engine                                       *)
(***************************************************************************)
Node(id, s, c, sti, lti) ==
  [id |-> id, strength |-> s, confidence |-> c,
   shortTermImportance |-> sti, longTermImportance |-> lti]

createIntentNodes ==
  << Node("user_input", 10000, 9000, 8000, 6000),
     Node("intent_classifier", 9000, 8500, 9000, 8000),
     Node("context_analyzer", 8500, 8000, 7000, 9000) >>

createDialogNodes ==
  << Node("dialog_state", 10000, 9500, 9500, 8500),
     Node("flow_controller", 9000, 9000, 8500, 9000) >>

createResponseNodes ==
  << Node("response_generator", 9000, 8500, 8000, 7000),
     Node("contextual_adapter", 8500, 8000, 7500, 8500) >>

Pattern(id, nodes, thr, score) ==
  [id |-> id, nodes |-> nodes, activationThreshold |-> thr, synergyScore |-> score]

initializeBasicPatterns ==
  << Pattern("intent_recognition", createIntentNodes, 6000, 8000),
     Pattern("dialog_management", createDialogNodes, 7000, 7500),
     Pattern("response_generation", createResponseNodes, 6500, 8500) >>

SeedCognitiveState ==
  [activeNodes |-> <<>>,
   attentionalFocus |-> <<>>,
   emergentPatterns |-> <<>>,
   synergyLevel |-> 5000,
   learningRate |-> 1000,
   adaptationHistory |-> <<>>]

MaxHistory == 100

FocusSize == 5

(***************************************************************************)
(* Inputs of processInput                                                  *)
(***************************************************************************)
Input(isNull, type, text, dialog, dialogState, turnCount, requiresResponse) ==
  [isNull |-> isNull, type |-> type, text |-> text, dialog |-> dialog,
   dialogState |-> dialogState, turnCount |-> turnCount,
   requiresResponse |-> requiresResponse]

InNull == Input(TRUE, "", NoText, FALSE, "", 0, FALSE)

InEmpty == Input(FALSE, "", NoText, FALSE, "", 0, FALSE)

InGreeting ==
  Input(FALSE, "message", Str(<<"H", "i", " ", "t", "h", "e", "r", "e", "!">>),
        FALSE, "", 0, TRUE)

InHelp ==
  Input(FALSE, "message", Str(<<"I", " ", "n", "e", "e", "d", " ", "h", "e", "l", "p">>),
        FALSE, "", 0, TRUE)

InAssist ==
  Input(FALSE, "message", Str(<<"A", "s", "s", "i", "s", "t", " ", "m", "e">>),
        FALSE, "", 0, TRUE)

InFarewell == Input(FALSE, "message", Str(<<"B", "y", "e">>), FALSE, "", 0, TRUE)

InHelpBye ==
  Input(FALSE, "message",
        Str(<<"B", "y", "e", ",", " ",
            "I", " ", "n", "e", "e", "d", " ", "h", "e", "l", "p">>),
        FALSE, "", 0, TRUE)

InHiBye ==
  Input(FALSE, "message", Str(<<"H", "i", ",", " ", "b", "y", "e">>), FALSE, "", 0, TRUE)

InPlain ==
  Input(FALSE, "message", Str(<<"T", "h", "a", "n", "k", "s">>), FALSE, "", 0, TRUE)

InDialog == Input(FALSE, "message", NoText, TRUE, "active", 3, FALSE)

InMessage == Input(FALSE, "message", NoText, FALSE, "", 0, FALSE)

\* A request for help inside a dialog: the input that activates all seven nodes
\* and takes the largest intent bonus
InHelpDialog ==
  Input(FALSE, "message", Str(<<"h", "e", "l", "p">>), TRUE, "active", 3, TRUE)

\* An input that only asks for a response: neither a message nor part of a dialog
InRespond == Input(FALSE, "event", NoText, FALSE, "", 0, TRUE)

InBadText == Input(FALSE, "message", Num(42), FALSE, "", 0, TRUE)

(***************************************************************************)
(* Pure parts of the reasoning pipeline.  cs is a CognitiveState record,   *)
(* as the atomSpace, pm the patternMatchers map.                           *)
(***************************************************************************)
\* Mutant: the dialog flag activates no node
findRelevantNodesNoDialog(input) ==
  (IF ~input.isNull /\ input.type = "message"
     THEN <<"user_input", "intent_classifier", "context_analyzer">> ELSE <<>>)
  \o (IF ~input.isNull /\ input.requiresResponse
        THEN <<"response_generator", "contextual_adapter">> ELSE <<>>)

findRelevantNodes(input) ==
  (IF ~input.isNull /\ input.type = "message"
     THEN <<"user_input", "intent_classifier", "context_analyzer">> ELSE <<>>)
  \o (IF ~input.isNull /\ input.dialog
        THEN <<"dialog_state", "flow_controller">> ELSE <<>>)
  \o (IF ~input.isNull /\ input.requiresResponse
        THEN <<"response_generator", "contextual_adapter">> ELSE <<>>)

\* this.atomSpace.get(nodeId)?.attentionValue.shortTermImportance || 0
Importance(as, id) == IF MapHas(as, id) THEN MapGet(as, id).shortTermImportance ELSE 0

\* Array.prototype.sort with (a, b) => b.importance - a.importance: stable, descending
RECURSIVE InsertDesc(_, _, _)
InsertDesc(sorted, x, as) ==
  IF sorted = <<>> THEN <<x>>
  ELSE IF Importance(as, Head(sorted)) >= Importance(as, x)
         THEN <<Head(sorted)>> \o InsertDesc(Tail(sorted), x, as)
         ELSE <<x>> \o sorted

RECURSIVE SortDesc(_, _)
SortDesc(s, as) ==
  IF s = <<>> THEN <<>>
  ELSE InsertDesc(SortDesc(SubSeq(s, 1, Len(s) - 1), as), s[Len(s)], as)

\* Mutant: the sorted list is not cut to its first five
updateAttentionalFocusUncut(cs, as) ==
  [cs EXCEPT !.attentionalFocus = SortDesc(cs.activeNodes, as)]

updateAttentionalFocus(cs, as) ==
  [cs EXCEPT !.attentionalFocus = SliceFirst(SortDesc(cs.activeNodes, as), FocusSize)]

calculatePatternActivation(cs, pattern) ==
  LET present == SelectSeq(pattern.nodes, LAMBDA n : InSeq(n.id, cs.activeNodes))
      terms == [i \in 1..Len(present) |-> Mul(present[i].strength, present[i].confidence)]
  IN IF Len(present) > 0 THEN SumSeq(terms) \div Len(present) ELSE 0

IsActivePattern(cs, pattern) ==
  calculatePatternActivation(cs, pattern) > pattern.activationThreshold

\* Mutant: no pattern above its threshold gives 0
calculateSynergyLevelFromZero(cs, pm) ==
  LET act == SelectSeq(pm, LAMBDA p : IsActivePattern(cs, p))
      terms == [i \in 1..Len(act) |->
                  Mul(act[i].synergyScore, calculatePatternActivation(cs, act[i]))]
  IN [cs EXCEPT !.synergyLevel =
        IF Len(act) > 0 THEN SumSeq(terms) \div Len(act) ELSE 0]

calculateSynergyLevel(cs, pm) ==
  LET act == SelectSeq(pm, LAMBDA p : IsActivePattern(cs, p))
      terms == [i \in 1..Len(act) |->
                  Mul(act[i].synergyScore, calculatePatternActivation(cs, act[i]))]
  IN [cs EXCEPT !.synergyLevel =
        IF Len(act) > 0 THEN SumSeq(terms) \div Len(act) ELSE 5000]

BumpAttention(as, ids) ==
  [i \in 1..Len(as) |->
     IF InSeq(as[i].id, ids)
       THEN [as[i] EXCEPT !.shortTermImportance = Min(10000, @ + 1000)]
       ELSE as[i]]

\* Mutant: the active set is replaced by the nodes relevant to the input
updateCognitiveStateReplacing(cs, as, pm, input) ==
  LET relevantNodes == findRelevantNodes(input)
      cs1 == [cs EXCEPT !.activeNodes = relevantNodes]
  IN [cs |-> calculateSynergyLevel(updateAttentionalFocus(cs1, as), pm), as |-> as]

\* updateCognitiveState: the new CognitiveState and the new atomSpace
updateCognitiveState(cs, as, pm, input) ==
  LET relevantNodes == findRelevantNodes(input)
      as1 == BumpAttention(as, relevantNodes)
      cs1 == [cs EXCEPT !.activeNodes = SetAddAll(@, relevantNodes)]
  IN [cs |-> calculateSynergyLevel(updateAttentionalFocus(cs1, as1), pm), as |-> as1]

NoIntent == [intent |-> "", confidence |-> 0, threw |-> FALSE]

reasonAboutIntent(cs, pm, input) ==
  IF ~MapHas(pm, "intent_recognition")
    THEN [intent |-> "unknown", confidence |-> 5000, threw |-> FALSE]
  ELSE
    LET activation == calculatePatternActivation(cs, MapGet(pm, "intent_recognition"))
    IN IF input.isNull \/ ~Truthy(input.text)
         THEN [intent |-> "general", confidence |-> activation, threw |-> FALSE]
       ELSE IF input.text.kind # "string"
         \* input.text.toLowerCase is not a function: TypeError
         THEN [intent |-> "", confidence |-> 0, threw |-> TRUE]
       ELSE
         LET text == ToLowerCase(input.text.chars)
         IN IF Includes(text, <<"h", "e", "l", "p">>)
                 \/ Includes(text, <<"a", "s", "s", "i", "s", "t">>)
              THEN [intent |-> "help_request",
                    confidence |-> Min(10000, activation + 2000), threw |-> FALSE]
            ELSE IF Includes(text, <<"b", "y", "e">>)
                 \/ Includes(text, <<"g", "o", "o", "d", "b", "y", "e">>)
              THEN [intent |-> "farewell",
                    confidence |-> Min(10000, activation + 1500), threw |-> FALSE]
            ELSE IF Includes(text, <<"h", "e", "l", "l", "o">>)
                 \/ Includes(text, <<"h", "i">>)
              THEN [intent |-> "greeting",
                    confidence |-> Min(10000, activation + 1500), threw |-> FALSE]
            ELSE [intent |-> "general", confidence |-> activation, threw |-> FALSE]

NoContext == [context |-> "", dialogState |-> "", turnCount |-> 0, confidence |-> 0]

reasonAboutContext(cs, pm, input) ==
  IF ~MapHas(pm, "dialog_management")
    THEN [context |-> "unknown", dialogState |-> "", turnCount |-> 0, confidence |-> 5000]
  ELSE [context |-> "conversational",
        dialogState |-> IF input.isNull \/ input.dialogState = "" THEN "active"
                        ELSE input.dialogState,
        turnCount |-> IF input.isNull \/ input.turnCount = 0 THEN 1 ELSE input.turnCount,
        confidence |-> calculatePatternActivation(cs, MapGet(pm, "dialog_management"))]

NoAction == [action |-> "", adaptationLevel |-> 0, confidence |-> 0]

reasonAboutAction(cs, pm, input) ==
  IF ~MapHas(pm, "response_generation")
    THEN [action |-> "respond", adaptationLevel |-> 0, confidence |-> 5000]
  ELSE [action |-> "respond",
        adaptationLevel |-> cs.synergyLevel,
        confidence |-> calculatePatternActivation(cs, MapGet(pm, "response_generation"))]

\* (intent.confidence + context.confidence + action.confidence) / 3
ReasoningConfidence(intent, context, action) ==
  (intent.confidence + context.confidence + action.confidence) \div 3

\* The annotation applyCognitiveAdaptation appends to the content
applyCognitiveAdaptation(cs) ==
  IF cs.synergyLevel > 8000 THEN "high_synergy"
  ELSE IF cs.synergyLevel < 4000 THEN "adapting"
  ELSE "none"

NoContent == [template |-> "", variant |-> 0, confidencePct |-> 0, synergyPct |-> 0,
              annotation |-> ""]

\* Mutant: a help request is answered from the greeting templates
generateContentHelpAsGreeting(cs, intent, confidence, g) ==
  LET template ==
        CASE intent.intent = "greeting" -> "greeting"
          [] intent.intent = "help_request" -> "greeting"
          [] intent.intent = "farewell" -> "farewell"
          [] OTHER -> "general"
  IN [template |-> template,
      variant |-> IF template = "greeting" THEN g ELSE 0,
      confidencePct |-> IF template = "general" THEN ToFixed1Pct(confidence) ELSE 0,
      synergyPct |-> IF template = "general" THEN ToFixed1Pct(cs.synergyLevel) ELSE 0,
      annotation |-> applyCognitiveAdaptation(cs)]

\* generateResponseContent; g is the value of Math.floor(Math.random() * 3)
generateResponseContent(cs, intent, confidence, g) ==
  LET template ==
        CASE intent.intent = "greeting" -> "greeting"
          [] intent.intent = "help_request" -> "help"
          [] intent.intent = "farewell" -> "farewell"
          [] OTHER -> "general"
  IN [template |-> template,
      variant |-> IF template = "greeting" THEN g ELSE 0,
      confidencePct |-> IF template = "general" THEN ToFixed1Pct(confidence) ELSE 0,
      synergyPct |-> IF template = "general" THEN ToFixed1Pct(cs.synergyLevel) ELSE 0,
      annotation |-> applyCognitiveAdaptation(cs)]

(***************************************************************************)
(* The text of the response content, character by character                *)
(***************************************************************************)
Digit(d) ==
  CASE d = 0 -> "0" [] d = 1 -> "1" [] d = 2 -> "2" [] d = 3 -> "3" [] d = 4 -> "4"
    [] d = 5 -> "5" [] d = 6 -> "6" [] d = 7 -> "7" [] d = 8 -> "8" [] OTHER -> "9"

RECURSIVE Decimal(_)
Decimal(n) == IF n < 10 THEN <<Digit(n)>> ELSE Decimal(n \div 10) \o <<Digit(n % 10)>>

\* The text toFixed(1) returns, from the number in tenths
ToFixed1Text(tenths) == Decimal(tenths \div 10) \o <<".">> \o <<Digit(tenths % 10)>>

greetings ==
  << \* Hello! I'm here to help you with cognitive assistance.
     << "H", "e", "l", "l", "o", "!", " ", "I", "'", "m", " ", "h", "e", "r", "e", " ",
        "t", "o", " ", "h", "e", "l", "p", " ", "y", "o", "u", " ", "w", "i", "t", "h",
        " ", "c", "o", "g", "n", "i", "t", "i", "v", "e", " ", "a", "s", "s", "i", "s",
        "t", "a", "n", "c", "e", "." >>,
     \* Hi there! Ready to explore some intelligent solutions together?
     << "H", "i", " ", "t", "h", "e", "r", "e", "!", " ", "R", "e", "a", "d", "y", " ",
        "t", "o", " ", "e", "x", "p", "l", "o", "r", "e", " ", "s", "o", "m", "e", " ",
        "i", "n", "t", "e", "l", "l", "i", "g", "e", "n", "t", " ", "s", "o", "l", "u",
        "t", "i", "o", "n", "s", " ", "t", "o", "g", "e", "t", "h", "e", "r", "?" >>,
     \* Greetings! Let's engage in some productive cognitive synergy.
     << "G", "r", "e", "e", "t", "i", "n", "g", "s", "!", " ", "L", "e", "t", "'", "s",
        " ", "e", "n", "g", "a", "g", "e", " ", "i", "n", " ", "s", "o", "m", "e", " ",
        "p", "r", "o", "d", "u", "c", "t", "i", "v", "e", " ", "c", "o", "g", "n", "i",
        "t", "i", "v", "e", " ", "s", "y", "n", "e", "r", "g", "y", "." >> >>

\* g is the value of Math.floor(Math.random() * greetings.length)
generateGreeting(g) == greetings[g + 1]

generateHelpResponse ==
  << "I", " ", "c", "a", "n", " ", "a", "s", "s", "i", "s", "t", " ", "y", "o", "u",
     " ", "w", "i", "t", "h", " ", "c", "o", "g", "n", "i", "t", "i", "v", "e", " ",
     "r", "e", "a", "s", "o", "n", "i", "n", "g", ",", " ", "p", "a", "t", "t", "e",
     "r", "n", " ", "r", "e", "c", "o", "g", "n", "i", "t", "i", "o", "n", ",", " ",
     "a", "n", "d", " ", "a", "d", "a", "p", "t", "i", "v", "e", " ", "r", "e", "s",
     "p", "o", "n", "s", "e", "s", ".", " ", "M", "y", " ", "c", "o", "g", "n", "i",
     "t", "i", "v", "e", " ", "a", "r", "c", "h", "i", "t", "e", "c", "t", "u", "r",
     "e", " ", "a", "l", "l", "o", "w", "s", " ", "m", "e", " ", "t", "o", " ", "l",
     "e", "a", "r", "n", " ", "a", "n", "d", " ", "a", "d", "a", "p", "t", " ", "t",
     "o", " ", "p", "r", "o", "v", "i", "d", "e", " ", "b", "e", "t", "t", "e", "r",
     " ", "a", "s", "s", "i", "s", "t", "a", "n", "c", "e", " ", "o", "v", "e", "r",
     " ", "t", "i", "m", "e", ".", " ", "W", "h", "a", "t", " ", "w", "o", "u", "l",
     "d", " ", "y", "o", "u", " ", "l", "i", "k", "e", " ", "h", "e", "l", "p", " ",
     "w", "i", "t", "h", "?" >>

generateFarewell ==
  << "G", "o", "o", "d", "b", "y", "e", "!", " ", "O", "u", "r", " ", "c", "o", "g",
     "n", "i", "t", "i", "v", "e", " ", "i", "n", "t", "e", "r", "a", "c", "t", "i",
     "o", "n", " ", "h", "a", "s", " ", "b", "e", "e", "n", " ", "v", "a", "l", "u",
     "a", "b", "l", "e", " ", "f", "o", "r", " ", "m", "y", " ", "l", "e", "a", "r",
     "n", "i", "n", "g", " ", "a", "n", "d", " ", "a", "d", "a", "p", "t", "a", "t",
     "i", "o", "n", ".", " ", "F", "e", "e", "l", " ", "f", "r", "e", "e", " ", "t",
     "o", " ", "r", "e", "t", "u", "r", "n", " ", "a", "n", "y", "t", "i", "m", "e",
     " ", "f", "o", "r", " ", "m", "o", "r", "e", " ", "i", "n", "t", "e", "l", "l",
     "i", "g", "e", "n", "t", " ", "a", "s", "s", "i", "s", "t", "a", "n", "c", "e",
     "." >>

generateGeneralResponse(confidencePct, synergyPct) ==
  << "I", " ", "u", "n", "d", "e", "r", "s", "t", "a", "n", "d", " ", "y", "o", "u",
     "'", "r", "e", " ", "l", "o", "o", "k", "i", "n", "g", " ", "f", "o", "r", " ",
     "a", "s", "s", "i", "s", "t", "a", "n", "c", "e", ".", " ", "B", "a", "s", "e",
     "d", " ", "o", "n", " ", "m", "y", " ", "c", "o", "g", "n", "i", "t", "i", "v",
     "e", " ", "a", "n", "a", "l", "y", "s", "i", "s", " ", "(", "c", "o", "n", "f",
     "i", "d", "e", "n", "c", "e", ":", " " >>
  \o ToFixed1Text(confidencePct) \o
  << "%", ")", ",", " ", "I", "'", "m", " ", "r", "e", "a", "d", "y", " ", "t", "o",
     " ", "h", "e", "l", "p", ".", " ", "M", "y", " ", "c", "u", "r", "r", "e", "n",
     "t", " ", "s", "y", "n", "e", "r", "g", "y", " ", "l", "e", "v", "e", "l", " ",
     "i", "s", " " >>
  \o ToFixed1Text(synergyPct) \o
  << "%", ",", " ", "w", "h", "i", "c", "h", " ", "m", "e", "a", "n", "s", " ", "I",
     "'", "m", " ", "o", "p", "e", "r", "a", "t", "i", "n", "g", " ", "w", "i", "t",
     "h", " ", "g", "o", "o", "d", " ", "c", "o", "g", "n", "i", "t", "i", "v", "e",
     " ", "c", "o", "h", "e", "r", "e", "n", "c", "e", "." >>

HighSynergyNote ==
  << " ", "[", "C", "o", "g", "n", "i", "t", "i", "v", "e", " ", "e", "n", "h", "a",
     "n", "c", "e", "m", "e", "n", "t", ":", " ", "H", "i", "g", "h", " ", "s", "y",
     "n", "e", "r", "g", "y", " ", "d", "e", "t", "e", "c", "t", "e", "d", " ", "-",
     " ", "r", "e", "s", "p", "o", "n", "s", "e", "s", " ", "o", "p", "t", "i", "m",
     "i", "z", "e", "d", " ", "f", "o", "r", " ", "m", "a", "x", "i", "m", "u", "m",
     " ", "e", "f", "f", "e", "c", "t", "i", "v", "e", "n", "e", "s", "s", "]" >>

AdaptingNote ==
  << " ", "[", "C", "o", "g", "n", "i", "t", "i", "v", "e", " ", "a", "d", "a", "p",
     "t", "a", "t", "i", "o", "n", ":", " ", "A", "d", "j", "u", "s", "t", "i", "n",
     "g", " ", "r", "e", "s", "p", "o", "n", "s", "e", " ", "p", "a", "t", "t", "e",
     "r", "n", "s", " ", "t", "o", " ", "i", "m", "p", "r", "o", "v", "e", " ", "s",
     "y", "n", "e", "r", "g", "y", "]" >>

\* The string generateResponseContent returns
ContentText(content) ==
  (CASE content.template = "greeting" -> generateGreeting(content.variant)
     [] content.template = "help" -> generateHelpResponse
     [] content.template = "farewell" -> generateFarewell
     [] OTHER -> generateGeneralResponse(content.confidencePct, content.synergyPct))
  \o (CASE content.annotation = "high_synergy" -> HighSynergyNote
         [] content.annotation = "adapting" -> AdaptingNote
         [] OTHER -> <<>>)

generateAdaptations(cs, confidence) ==
  (IF confidence < 6000
     THEN <<"Increase pattern matching sensitivity", "Enhance context analysis depth">>
     ELSE <<>>)
  \o (IF cs.synergyLevel < 5000
        THEN <<"Strengthen cognitive node connections", "Optimize attention allocation">>
        ELSE <<>>)

getActivePatterns(cs, pm) == MapKeys(SelectSeq(pm, LAMBDA p : IsActivePattern(cs, p)))

\* processingTime in milliseconds
\* Mutant: the synergy level is left out of the effectiveness
calculateEffectivenessWithoutSynergy(cs, confidence, processingTime) ==
  LET timeEfficiency == Max(0, SCALE - (processingTime * SCALE) \div 5000)
  IN Max(0, Min(SCALE, (confidence + timeEfficiency) \div 2))

calculateEffectiveness(cs, confidence, processingTime) ==
  LET timeEfficiency == Max(0, SCALE - (processingTime * SCALE) \div 5000)
      e1 == (confidence + timeEfficiency) \div 2
      e2 == (e1 + cs.synergyLevel) \div 2
  IN Max(0, Min(SCALE, e2))

\* Mutant: the steps of 0.01 without the cap and the floor
AdjustLearningRateUnclamped(rate, effectiveness) ==
  IF effectiveness > 8000 THEN rate + 100
  ELSE IF effectiveness < 4000 THEN rate - 100
  ELSE rate

\* Lines 688-695: the learning rate after a learn step
AdjustLearningRate(rate, effectiveness) ==
  IF effectiveness > 8000 THEN Min(2000, rate + 100)
  ELSE IF effectiveness < 4000 THEN Max(500, rate - 100)
  ELSE rate

\* Mutant: the trim keeps the oldest records
TrimHistoryKeepOldest(h) == IF Len(h) > MaxHistory THEN SliceFirst(h, MaxHistory) ELSE h

\* Lines 683-686: the history after the push of line 680
TrimHistory(h) == IF Len(h) > MaxHistory THEN SliceLast(h, MaxHistory) ELSE h

\* updateNodesFromLearning: the new atomSpace
updateNodesFromLearning(cs, as, effectiveness) ==
  LET adjustment == Mul(effectiveness - 5000, cs.learningRate)
  IN [i \in 1..Len(as) |->
        IF InSeq(as[i].id, cs.activeNodes)
          THEN [as[i] EXCEPT
                  !.strength = Max(0, Min(10000, @ + adjustment)),
                  !.confidence = Max(0, Min(10000, @ + adjustment \div 2)),
                  !.longTermImportance =
                     IF effectiveness > 7000 THEN Min(10000, @ + 500) ELSE @]
          ELSE as[i]]

\* learnFromInteraction up to its await: the new CognitiveState and atomSpace.
\* now is the value of Date.now().
learnFromInteraction(cs, as, input, confidence, processingTime, now) ==
  LET effectiveness == calculateEffectiveness(cs, confidence, processingTime)
      adaptation == [timestamp |-> now,
                     trigger |-> IF input.isNull \/ input.type = "" THEN "unknown"
                                 ELSE input.type,
                     adaptation |-> ToFixed1Pct(confidence),
                     effectiveness |-> effectiveness]
      cs1 == [cs EXCEPT !.adaptationHistory = TrimHistory(Append(@, adaptation))]
      cs2 == [cs1 EXCEPT !.learningRate = AdjustLearningRate(@, effectiveness)]
  IN [cs |-> cs2, as |-> updateNodesFromLearning(cs2, as, effectiveness)]

(***************************************************************************)
(* State                                                                   *)
(***************************************************************************)
VARIABLES
  cognitiveState,       \* this.cognitiveState of the CognitiveOrchestrator
  stateObj,             \* identity of the object this.cognitiveState refers to
  atomSpace,            \* this.atomSpace
  patternMatchers,      \* this.patternMatchers
  autonomousMode,       \* this.autonomousMode
  learningEnabled,      \* this.learningEnabled
  adaptationThreshold,  \* this.adaptationThreshold
  clock,                \* Date.now(), as a logical clock
  calls,                \* the processInput calls made so far, by call number
  queue,                \* the microtask queue: call numbers whose continuation is ready
  events                \* the events emitted by the last step, in order

cogVars == <<cognitiveState, stateObj, atomSpace, patternMatchers, autonomousMode,
             learningEnabled, adaptationThreshold, clock, calls, queue>>

VARIABLES
  components,           \* this.components of the SynergyArchitecture
  patterns,             \* this.patterns
  emergentBehaviors,    \* this.emergentBehaviors
  autonomousAgents,     \* this.autonomousAgents
  architecturalState,   \* this.architecturalState
  autogenesisEnabled,   \* this.autogenesisEnabled
  synergyThreshold,     \* this.synergyThreshold
  timers,               \* the four interval timers: what has fired since what
  archEvents,           \* the events the last step emitted on the SynergyArchitecture
  lastCycle             \* the cycle or call of the SynergyArchitecture that ran last

archVars == <<components, patterns, emergentBehaviors, autonomousAgents,
              architecturalState, autogenesisEnabled, synergyThreshold, timers,
              archEvents, lastCycle>>

(***************************************************************************)
(* Bounds of the model                                                     *)
(***************************************************************************)
MaxCalls == 2          \* processInput calls made while calls are tracked one by one

MaxResets == 2         \* reset() calls

MaxApiCalls == 2       \* learn steps of awaited calls under SpecApi

MaxFocusCalls == 3     \* learn steps of awaited calls under SpecFocus and SpecCeiling

MaxLearnCalls == 12    \* learn steps of awaited calls under SpecLearn

MaxHistCalls == 103    \* learn steps of awaited calls under SpecHist

\* Date.now() - startTime, in milliseconds
ProcTimes == {0, 6000}

\* Math.floor(Math.random() * greetings.length)
GreetingChoices == 0..2

\* Inputs of overlapping calls
Inputs == {InHelp, InDialog}

\* Inputs that between them activate all seven node ids
FocusInputs == {InMessage, InDialog, InRespond}

\* Inputs for the largest effectiveness the seed patterns can give, and for less
CeilingInputs == {InNull, InHelp, InDialog, InRespond, InHelpDialog}

\* Inputs of awaited calls
ApiInputs == {InEmpty, InDialog}

\* Arguments of addCognitivePattern: the pattern of the unit test; a replacement of
\* the seed intent pattern with every value at 1.0, the top of the documented
\* ranges; and a replacement whose synergyScore and node strength exceed 1.0
TestPattern == Pattern("test_pattern", <<>>, 6000, 7000)

BoostPattern ==
  Pattern("intent_recognition", <<Node("user_input", 10000, 10000, 5000, 5000)>>, 5000, 10000)

OverdrivePattern ==
  Pattern("intent_recognition", <<Node("user_input", 20000, 10000, 5000, 5000)>>,
          6000, 15000)

\* A pattern over two seed nodes that different inputs activate: the dialog flag
\* activates dialog_state, a request for a response contextual_adapter
TurnTakingPattern ==
  Pattern("turn_taking", <<createDialogNodes[1], createResponseNodes[2]>>, 9000, 8000)

CustomPatterns == {TestPattern, OverdrivePattern}

PatternIds == {"intent_recognition", "missing_pattern"}

Thresholds == {-5000, 3000, 15000}

\* A replacement of the seed dialog pattern that asks for more activation than its
\* nodes can give
StrictDialogPattern == Pattern("dialog_management", createDialogNodes, 9500, 7500)

DialogPatternIds == {"dialog_management", "intent_recognition"}

\* Inputs whose text selects a response template
TemplateInputs == {InGreeting, InHelp, InAssist}

\* Texts for each intent, and texts with the keywords of two intents
IntentInputs == TemplateInputs \cup {InFarewell, InHelpBye, InHiBye, InPlain}

\* Inputs that carry nothing to reason about: null, {} and a text that is a number
DegradeInputs == {InNull, InEmpty, InBadText}

(***************************************************************************)
(* processInput, segment by segment                                        *)
(***************************************************************************)
getProcessingPath ==
  << "Input processing", "Cognitive state update", "Pattern activation",
     "Reasoning application", "Synergy calculation", "Response generation",
     "Adaptation planning" >>

NoMetadata == [cognitiveState |-> 0, activePatterns |-> <<>>, processingPath |-> <<>>]

NoResponse ==
  [type |-> "", content |-> NoContent, confidence |-> 0, synergyLevel |-> 0,
   adaptations |-> <<>>, metadata |-> NoMetadata]

Event(name, call, input, response, arg) ==
  [name |-> name, call |-> call, input |-> input, response |-> response, arg |-> arg]

\* The engine as one value, for the pure segment functions
Engine(cs, as, pm, le, now, obj) ==
  [cs |-> cs, as |-> as, pm |-> pm, learningEnabled |-> le, clock |-> now, obj |-> obj]

Eng == Engine(cognitiveState, atomSpace, patternMatchers, learningEnabled, clock, stateObj)

\* processInput up to its first await: updateCognitiveState, then the synchronous
\* start of applyCognitiveReasoning (reasonAboutIntent).  id is the call number and
\* inFlight tells whether another call is in flight.
StartCall(eng, id, input, inFlight) ==
  LET u == updateCognitiveState(eng.cs, eng.as, eng.pm, input)
      intent == reasonAboutIntent(u.cs, eng.pm, input)
  IN [eng |-> [eng EXCEPT !.cs = u.cs, !.as = u.as],
      call |-> [id |-> id, input |-> input,
                pc |-> IF intent.threw THEN "rejected" ELSE "context",
                intent |-> intent, context |-> NoContext, action |-> NoAction,
                confidence |-> 0, response |-> NoResponse,
                emits |-> 0, learned |-> FALSE,
                resetInFlight |-> FALSE, overlapped |-> inFlight],
      events |-> <<>>]

\* The 'cognition' event of line 314
CognitionEvent(eng, c) == Event("cognition", c.id, c.input, c.response, eng.obj)

\* Lines 313-321: the event is emitted and the call resolves
EmitCognition(eng, c) ==
  [eng |-> eng,
   call |-> [c EXCEPT !.emits = @ + 1, !.pc = "done"],
   events |-> <<CognitionEvent(eng, c)>>]

\* Mutant: the event is emitted by the learning branch only
AfterResponseEmitWhenLearning(eng, c, t) ==
  IF eng.learningEnabled
    THEN LET l == learnFromInteraction(eng.cs, eng.as, c.input,
                                       c.response.confidence, t, eng.clock)
         IN [eng |-> [eng EXCEPT !.cs = l.cs, !.as = l.as, !.clock = @ + 1],
             call |-> [c EXCEPT !.learned = TRUE, !.pc = "learnReturn"],
             events |-> <<>>]
    ELSE [eng |-> eng, call |-> [c EXCEPT !.pc = "done"], events |-> <<>>]

\* Mutant: the learn step runs whether or not learning is enabled
AfterResponseAlwaysLearning(eng, c, t) ==
  LET l == learnFromInteraction(eng.cs, eng.as, c.input,
                                c.response.confidence, t, eng.clock)
  IN [eng |-> [eng EXCEPT !.cs = l.cs, !.as = l.as, !.clock = @ + 1],
      call |-> [c EXCEPT !.learned = TRUE, !.pc = "learnReturn"],
      events |-> <<>>]

\* Lines 309-321, once generateSynergyResponse has resolved: the learn step up to
\* its return when learning is enabled, the emit otherwise
AfterResponse(eng, c, t) ==
  IF eng.learningEnabled
    THEN LET l == learnFromInteraction(eng.cs, eng.as, c.input,
                                       c.response.confidence, t, eng.clock)
         IN [eng |-> [eng EXCEPT !.cs = l.cs, !.as = l.as, !.clock = @ + 1],
             call |-> [c EXCEPT !.learned = TRUE, !.pc = "learnReturn"],
             events |-> <<>>]
    ELSE EmitCognition(eng, c)

\* One continuation of a call: from one await to the next.  t is the value of
\* Date.now() - startTime at line 310, g the random greeting index.
Segment(eng, c, t, g) ==
  CASE c.pc = "context" ->
         [eng |-> eng,
          call |-> [c EXCEPT !.context = reasonAboutContext(eng.cs, eng.pm, c.input),
                             !.pc = "action"],
          events |-> <<>>]
    [] c.pc = "action" ->
         [eng |-> eng,
          call |-> [c EXCEPT !.action = reasonAboutAction(eng.cs, eng.pm, c.input),
                             !.pc = "confidence"],
          events |-> <<>>]
    [] c.pc = "confidence" ->
         [eng |-> eng,
          call |-> [c EXCEPT !.confidence =
                                ReasoningConfidence(c.intent, c.context, c.action),
                             !.pc = "content"],
          events |-> <<>>]
    [] c.pc = "content" ->
         [eng |-> eng,
          call |-> [c EXCEPT !.response.content =
                                generateResponseContent(eng.cs, c.intent, c.confidence, g),
                             !.pc = "adaptations"],
          events |-> <<>>]
    [] c.pc = "adaptations" ->
         [eng |-> eng,
          call |-> [c EXCEPT !.response.confidence = c.confidence,
                             !.response.synergyLevel = eng.cs.synergyLevel,
                             !.response.adaptations =
                                generateAdaptations(eng.cs, c.confidence),
                             !.pc = "metadata"],
          events |-> <<>>]
    [] c.pc = "metadata" ->
         [eng |-> eng,
          call |-> [c EXCEPT !.response.type = "cognitive_response",
                             !.response.metadata =
                                [cognitiveState |-> eng.obj,
                                 activePatterns |-> getActivePatterns(eng.cs, eng.pm),
                                 processingPath |-> getProcessingPath],
                             !.pc = "learn"],
          events |-> <<>>]
    [] c.pc = "learn" -> AfterResponse(eng, c, t)
    [] c.pc = "learnReturn" ->
         [eng |-> eng, call |-> [c EXCEPT !.pc = "emit"], events |-> <<>>]
    [] c.pc = "emit" -> EmitCognition(eng, c)

Finished(c) == c.pc \in {"done", "rejected"}

\* A call awaited on its own: all its segments, with nothing in between
RECURSIVE RunToCompletion(_, _, _)
RunToCompletion(r, t, g) ==
  IF Finished(r.call) THEN r ELSE RunToCompletion(Segment(r.eng, r.call, t, g), t, g)

(***************************************************************************)
(* The reasoning engine: actions                                           *)
(***************************************************************************)
SetEngine(eng) ==
  /\ cognitiveState' = eng.cs
  /\ atomSpace' = eng.as
  /\ clock' = eng.clock

InFlight == queue # <<>>

\* processInput(input) is called: the call runs to its first await
ProcessInput(input) ==
  /\ Len(calls) < MaxCalls
  /\ LET r == StartCall(Eng, Len(calls) + 1, input, InFlight)
     IN /\ SetEngine(r.eng)
        /\ calls' = Append(calls, r.call)
        /\ queue' = IF Finished(r.call) THEN queue ELSE Append(queue, r.call.id)
        /\ events' = r.events
  /\ UNCHANGED <<stateObj, patternMatchers, autonomousMode, learningEnabled,
                 adaptationThreshold>>
  /\ UNCHANGED archVars

\* The microtask at the head of the queue runs: one segment of that call
MicrotaskStep ==
  /\ queue # <<>>
  /\ \E t \in ProcTimes, g \in GreetingChoices :
       LET r == Segment(Eng, calls[Head(queue)], t, g)
       IN /\ SetEngine(r.eng)
          /\ calls' = [calls EXCEPT ![Head(queue)] = r.call]
          /\ queue' = IF Finished(r.call) THEN Tail(queue)
                      ELSE Append(Tail(queue), Head(queue))
          /\ events' = r.events
  /\ UNCHANGED <<stateObj, patternMatchers, autonomousMode, learningEnabled,
                 adaptationThreshold>>
  /\ UNCHANGED archVars

\* Mutant: a reset that lowers the learning rate instead of reseeding it
initializeDecayingRate ==
  /\ cognitiveState' = [SeedCognitiveState EXCEPT
                          !.learningRate = Max(500, cognitiveState.learningRate - 100)]
  /\ stateObj' = stateObj + 1
  /\ atomSpace' = <<>>
  /\ patternMatchers' = initializeBasicPatterns

\* initializeCognitiveSystem, as reset() runs it
initializeCognitiveSystem ==
  /\ cognitiveState' = SeedCognitiveState
  /\ stateObj' = stateObj + 1
  /\ atomSpace' = <<>>
  /\ patternMatchers' = initializeBasicPatterns

Reset ==
  /\ stateObj < MaxResets
  /\ initializeCognitiveSystem
  /\ calls' = [i \in 1..Len(calls) |->
                 IF Finished(calls[i]) THEN calls[i]
                 ELSE [calls[i] EXCEPT !.resetInFlight = TRUE]]
  /\ events' = <<Event("cognitive_reset", 0, InNull, NoResponse, 0)>>
  /\ UNCHANGED <<autonomousMode, learningEnabled, adaptationThreshold, clock, queue>>
  /\ UNCHANGED archVars

SetLearningEnabled(enabled) ==
  /\ learningEnabled' = enabled
  /\ events' = <<Event("learning_change", 0, InNull, NoResponse, enabled)>>
  /\ UNCHANGED <<cognitiveState, stateObj, atomSpace, patternMatchers, autonomousMode,
                 adaptationThreshold, clock, calls, queue>>
  /\ UNCHANGED archVars

\* processInput(input) called and awaited before anything else runs: every segment
\* of the call, back to back.  maxLearn bounds the learn steps taken so far.
ProcessInputSync(input, t, g, maxLearn) ==
  /\ queue = <<>>
  /\ clock < maxLearn
  /\ LET r == RunToCompletion(StartCall(Eng, 0, input, FALSE), t, g)
     IN /\ SetEngine(r.eng)
        /\ events' = r.events
  /\ UNCHANGED <<stateObj, patternMatchers, autonomousMode, learningEnabled,
                 adaptationThreshold, calls, queue>>
  /\ UNCHANGED archVars

SetAutonomousMode(enabled) ==
  /\ autonomousMode' = enabled
  /\ events' = <<Event("autonomy_change", 0, InNull, NoResponse, enabled)>>
  /\ UNCHANGED <<cognitiveState, stateObj, atomSpace, patternMatchers, learningEnabled,
                 adaptationThreshold, clock, calls, queue>>
  /\ UNCHANGED archVars

SetAdaptationThreshold(threshold) ==
  /\ adaptationThreshold' = ClampUnit(threshold)
  /\ events' = <<>>
  /\ UNCHANGED <<cognitiveState, stateObj, atomSpace, patternMatchers, autonomousMode,
                 learningEnabled, clock, calls, queue>>
  /\ UNCHANGED archVars

AddCognitivePattern(pattern) ==
  /\ patternMatchers' = MapSet(patternMatchers, pattern)
  /\ events' = <<Event("pattern_added", 0, InNull, NoResponse, pattern.id)>>
  /\ UNCHANGED <<cognitiveState, stateObj, atomSpace, autonomousMode, learningEnabled,
                 adaptationThreshold, clock, calls, queue>>
  /\ UNCHANGED archVars

RemoveCognitivePattern(patternId) ==
  /\ patternMatchers' = MapDelete(patternMatchers, patternId)
  /\ events' = <<Event("pattern_removed", 0, InNull, NoResponse, patternId)>>
  /\ UNCHANGED <<cognitiveState, stateObj, atomSpace, autonomousMode, learningEnabled,
                 adaptationThreshold, clock, calls, queue>>
  /\ UNCHANGED archVars

CogInit ==
  /\ cognitiveState = SeedCognitiveState
  /\ stateObj = 0
  /\ atomSpace = <<>>
  /\ patternMatchers = initializeBasicPatterns
  /\ autonomousMode = TRUE
  /\ learningEnabled = TRUE
  /\ adaptationThreshold = 7000
  /\ clock = 0
  /\ calls = <<>>
  /\ queue = <<>>
  /\ events = <<>>

MaxHealthTicks == 2   \* health cycles in a run

(***************************************************************************)
(* The synergy control loop: numbers                                       *)
(***************************************************************************)
\* sum / n of lines 692, 698, 706, 707 and 845: 0/0 is NaN
Div(sum, n) == IF IsNaN(sum) \/ n = 0 THEN NaN ELSE sum \div n

\* a < b and a > b in JavaScript: false when either side is NaN
Less(a, b) == ~IsNaN(a) /\ ~IsNaN(b) /\ a < b

Greater(a, b) == Less(b, a)

\* The k-th value Math.random() returns within one cycle, read off a stream
Rand(stream, k) == stream[((k - 1) % Len(stream)) + 1]

(***************************************************************************)
(* The synergy control loop: seeds                                         *)
(***************************************************************************)
Connection(targetId, connectionType, strength, bandwidth, latency, reliability) ==
  [targetId |-> targetId, connectionType |-> connectionType, strength |-> strength,
   bandwidth |-> bandwidth * SCALE, latency |-> latency * SCALE,
   reliability |-> reliability]

ComponentState(load, efficiency, adaptationRate) ==
  [active |-> TRUE, load |-> load, efficiency |-> efficiency,
   adaptationRate |-> adaptationRate, errorCount |-> 0]

ComponentMetrics(throughput, responseTime, accuracy, resourceUsage, synergy, emergent) ==
  [throughput |-> throughput * SCALE, responseTime |-> responseTime * SCALE,
   accuracy |-> accuracy, resourceUsage |-> resourceUsage,
   synergyContribution |-> synergy, emergentProperties |-> emergent]

Component(id, type, connections, state, metrics) ==
  [id |-> id, type |-> type, connections |-> connections, state |-> state,
   metrics |-> metrics]

cognitiveConnections ==
  <<Connection("behavioral_adapter", "data_flow", 8000, 1000, 10, 9500),
    Connection("adaptive_learner", "control_flow", 7000, 800, 15, 9000),
    Connection("emergent_intelligence", "feedback", 9000, 600, 20, 9800)>>

behavioralConnections ==
  <<Connection("cognitive_processor", "feedback", 7500, 900, 12, 9200),
    Connection("adaptive_learner", "reinforcement", 8500, 1200, 8, 9400)>>

learnerConnections ==
  <<Connection("cognitive_processor", "data_flow", 9000, 1500, 5, 9600),
    Connection("emergent_intelligence", "data_flow", 8000, 700, 18, 9300)>>

emergentConnections ==
  <<Connection("cognitive_processor", "control_flow", 9500, 500, 25, 9900),
    Connection("behavioral_adapter", "control_flow", 8500, 600, 22, 9700)>>

\* initializeCoreComponents, establishComponentConnections included
initializeCoreComponents ==
  <<Component("cognitive_processor", "cognitive", cognitiveConnections,
              ComponentState(3000, 8500, 1000),
              ComponentMetrics(100, 50, 9000, 4000, 8000, 6000)),
    Component("behavioral_adapter", "behavioral", behavioralConnections,
              ComponentState(2500, 8800, 1500),
              ComponentMetrics(80, 75, 8500, 3500, 7500, 7000)),
    Component("adaptive_learner", "adaptive", learnerConnections,
              ComponentState(4000, 8200, 2000),
              ComponentMetrics(120, 60, 8800, 4500, 8500, 8000)),
    Component("emergent_intelligence", "emergent", emergentConnections,
              ComponentState(2000, 9000, 2500),
              ComponentMetrics(60, 100, 9200, 3000, 9500, 9500))>>

\* Identifiers of patterns and emergent behaviors: the seeds have a name only; an
\* emergent behavior is `emergence_<time>_<random>`, told apart here by the
\* emergence cycle and the interaction that produced it; its promotion prefixes
\* `pattern_`.
Id(name, cycle, pair) == [name |-> name, cycle |-> cycle, pair |-> pair]

ArchitecturalPattern(id, comps, topology, scalability, resilience, adaptability) ==
  [id |-> id, components |-> comps, topology |-> topology,
   scalability |-> scalability, resilience |-> resilience,
   adaptability |-> adaptability]

\* initializeArchitecturalPatterns: each seed pattern lists the components
\* registered at that moment
initializeArchitecturalPatterns(comps) ==
  <<ArchitecturalPattern(Id("hierarchical_cognitive", 0, 0), MapKeys(comps),
                         "hierarchical", 8000, 7000, 7500),
    ArchitecturalPattern(Id("networked_synergy", 0, 0), MapKeys(comps),
                         "networked", 9000, 8500, 9000),
    ArchitecturalPattern(Id("distributed_intelligence", 0, 0), MapKeys(comps),
                         "distributed", 9500, 9000, 8000),
    ArchitecturalPattern(Id("emergent_behavior", 0, 0), MapKeys(comps),
                         "emergent", 8500, 9500, 9500)>>

\* A value of an agent's knowledge map
NoSystemState == [synergyLevel |-> 0, coherence |-> 0, resilience |-> 0,
                  emergentBehaviors |-> 0]

Knowledge(key, kind, text, num, sys) ==
  [id |-> key, kind |-> kind, text |-> text, num |-> num, sys |-> sys]

KText(key, text) == Knowledge(key, "string", text, 0, NoSystemState)

KNumber(key, num) == Knowledge(key, "number", "", num, NoSystemState)

KEmptyList(key) == Knowledge(key, "list", "", 0, NoSystemState)

KSystemState(key, sys) == Knowledge(key, "object", "", 0, sys)

AgentPerformance(task, goal, resource, learning, adaptation, collaboration) ==
  [taskCompletion |-> task, goalAchievement |-> goal, resourceEfficiency |-> resource,
   learningRate |-> learning, adaptationSpeed |-> adaptation,
   collaborationScore |-> collaboration]

Agent(id, role, goals, progress, cpu, knowledge, experience, performance) ==
  [id |-> id, role |-> role, goals |-> goals,
   state |-> [active |-> TRUE, currentGoal |-> goals[1], progress |-> progress,
              cpu |-> cpu, knowledge |-> knowledge, experience |-> experience],
   performance |-> performance]

initializeAutonomousAgents ==
  <<Agent("orchestrator_agent", "orchestrator",
          <<"optimize_performance", "maintain_coherence", "ensure_resilience">>,
          6000, 3000,
          <<KText("component_status", "good"), KNumber("synergy_level", 7500),
            KText("adaptation_needs", "minimal")>>,
          7000, AgentPerformance(8500, 8000, 9000, 1500, 8000, 8500)),
    Agent("analyzer_agent", "analyzer",
          <<"identify_issues", "predict_problems", "optimize_metrics">>,
          8000, 2000,
          <<KEmptyList("performance_history"), KEmptyList("anomaly_patterns"),
            KEmptyList("optimization_opportunities")>>,
          6500, AgentPerformance(9000, 8500, 8500, 2000, 7000, 8000)),
    Agent("learner_agent", "learner",
          <<"improve_accuracy", "discover_patterns", "update_models">>,
          7000, 4000,
          <<KEmptyList("learned_patterns"), KEmptyList("model_updates"),
            KEmptyList("accuracy_metrics")>>,
          8000, AgentPerformance(8800, 8200, 7500, 2500, 8500, 9000))>>

\* The field initializer of lines 143-154
InitialArchitecturalState ==
  [totalComponents |-> 0, activeComponents |-> 0, emergentBehaviors |-> 0,
   synergyLevel |-> 5000, adaptationRate |-> 1000, autonomyLevel |-> 8000,
   coherence |-> 7500, resilience |-> 6000, lastEvolution |-> 0,
   evolutionCount |-> 0]

ArchEvent(name, id, value) == [name |-> name, id |-> id, value |-> value]

NoId == Id("", 0, 0)

(***************************************************************************)
(* The synergy control loop: the health cycle                              *)
(***************************************************************************)
calculateComponentHealth(component) ==
  LET efficiency == component.state.efficiency
      loadFactor == SCALE - Max(0, component.state.load - 7000)
      errorFactor == Max(0, SCALE - component.state.errorCount * 1000)
  IN (efficiency + loadFactor + errorFactor) \div 3

\* r is the value of Math.random() of line 667
updateComponentMetrics(component, r) ==
  LET efficiency == component.state.efficiency
      load == component.state.load
  IN [component EXCEPT
        !.metrics = [throughput |-> Mul(efficiency, SCALE - load \div 2) * 150,
                     responseTime |-> 50 * SCALE + load * 100,
                     accuracy |-> Max(7000, Mul(efficiency, 9500)),
                     resourceUsage |-> Mul(load, 8000),
                     synergyContribution |-> Mul(efficiency, 9000),
                     emergentProperties |-> Mul(efficiency, 8000) + Mul(r, 2000)]]

\* The body of the forEach of monitorComponentHealth up to the emit, for the n-th
\* component the loop visits
VisitComponent(component, stream, n) ==
  LET load == Max(0, Min(SCALE, component.state.load
                                  + Mul(Rand(stream, 3 * n - 2) - 5000, 1000)))
      efficiency == Max(5000, Min(SCALE, component.state.efficiency
                                           + Mul(Rand(stream, 3 * n - 1) - 5000, 500)))
  IN updateComponentMetrics(
       [component EXCEPT !.state.load = load, !.state.efficiency = efficiency],
       Rand(stream, 3 * n))

\* addComponent and removeComponent on the registry: the new registry and the
\* events emitted
addComponent(comps, component) ==
  [comps |-> MapSet(comps, component),
   events |-> <<ArchEvent("component_added", Id(component.id, 0, 0), 0)>>]

removeComponent(comps, componentId) ==
  [comps |-> MapDelete(comps, componentId),
   events |-> <<ArchEvent("component_removed", Id(componentId, 0, 0), 0)>>]

\* A listener of 'component_health': on the event of component `on` it does
\* nothing, removes component `target`, or adds `component`
Listener(on, op, target, component) ==
  [on |-> on, op |-> op, target |-> target, component |-> component]

\* emit('component_health') runs the listener before it returns
RunListener(comps, listener, componentId) ==
  IF listener.op = "none" \/ listener.on # componentId
    THEN [comps |-> comps, events |-> <<>>]
  ELSE IF listener.op = "remove" THEN removeComponent(comps, listener.target)
  ELSE addComponent(comps, listener.component)

\* monitorComponentHealth: Map.prototype.forEach walks the live registry, so an
\* entry deleted before its turn is skipped and an entry added during the walk is
\* visited.  i is the position of the entry visited next, n the number visited.
RECURSIVE monitorFrom(_, _, _, _, _, _)
monitorFrom(comps, i, n, stream, listener, emitted) ==
  IF i > Len(comps) THEN [comps |-> comps, events |-> emitted]
  ELSE LET component == VisitComponent(comps[i], stream, n + 1)
           visited == [comps EXCEPT ![i] = component]
           health == ArchEvent("component_health", Id(component.id, 0, 0),
                               calculateComponentHealth(component))
           after == RunListener(visited, listener, component.id)
           gone == Cardinality({j \in 1..i : ~MapHas(after.comps, visited[j].id)})
       IN monitorFrom(after.comps, i - gone + 1, n + 1, stream, listener,
                      emitted \o <<health>> \o after.events)

monitorComponentHealth(comps, stream, listener) ==
  monitorFrom(comps, 1, 0, stream, listener, <<>>)

updateArchitecturalState(state, comps, behaviors) ==
  LET n == Len(comps)
      healthScores == [i \in 1..n |-> calculateComponentHealth(comps[i])]
      avgHealth == Div(SumSeq(healthScores), n)
      healthVariance ==
        IF IsNaN(avgHealth) THEN NaN
        ELSE Div(SumSeq([i \in 1..n |-> Mul(healthScores[i] - avgHealth,
                                            healthScores[i] - avgHealth)]), n)
  IN [state EXCEPT
        !.totalComponents = n,
        !.activeComponents = Cardinality({i \in 1..n : comps[i].state.active}),
        !.emergentBehaviors = Len(behaviors),
        !.synergyLevel =
           Div(SumSeq([i \in 1..n |-> comps[i].metrics.synergyContribution]), n),
        !.coherence = Div(SumSeq([i \in 1..n |-> comps[i].state.efficiency]), n),
        !.resilience =
           IF IsNaN(healthVariance) THEN NaN ELSE Max(0, SCALE - healthVariance)]

\* detectPerformanceAnomalies: the event emitted, carrying the number of anomalies
detectPerformanceAnomalies(comps) ==
  LET count(i) == (IF comps[i].state.load > 9000 THEN 1 ELSE 0)
                  + (IF comps[i].state.efficiency < 6000 THEN 1 ELSE 0)
                  + (IF comps[i].state.errorCount > 5 THEN 1 ELSE 0)
      anomalies == SumSeq([i \in 1..Len(comps) |-> count(i)])
  IN IF anomalies > 0 THEN <<ArchEvent("performance_anomaly", NoId, anomalies)>>
     ELSE <<>>

(***************************************************************************)
(* The synergy control loop: the evolution cycle                           *)
(***************************************************************************)
planArchitecturalEvolution(state, threshold) ==
  LET synergyLow == Less(state.synergyLevel, threshold)
      coherenceLow == Less(state.coherence, 7000)
  IN [shouldEvolve |-> synergyLow \/ coherenceLow,
      type |-> IF coherenceLow THEN "coherence_improvement"
               ELSE IF synergyLow THEN "synergy_improvement"
               ELSE "optimization",
      changes |-> (IF synergyLow
                     THEN <<"Strengthen component connections",
                            "Optimize information flow">>
                     ELSE <<>>)
                  \o (IF coherenceLow
                        THEN <<"Realign component goals",
                               "Improve coordination mechanisms">>
                        ELSE <<>>),
      expectedImprovement |-> (IF synergyLow THEN 1000 ELSE 0)
                              + (IF coherenceLow THEN 1500 ELSE 0)]

\* The body of the inner forEach of improveSynergy
StrengthenConnection(connection) ==
  IF connection.reliability > 9000
    THEN [connection EXCEPT !.strength = Min(SCALE, @ + 500),
                            !.bandwidth = Min(2000 * SCALE, (@ * 11) \div 10)]
    ELSE connection

\* Mutant: a synergy improvement also raises every component's efficiency
improveSynergyAndEfficiency(comps) ==
  [i \in 1..Len(comps) |->
     [comps[i] EXCEPT
        !.state.efficiency = Min(SCALE, @ + 200),
        !.connections = [k \in 1..Len(comps[i].connections) |->
                           StrengthenConnection(comps[i].connections[k])]]]

improveSynergy(comps) ==
  [i \in 1..Len(comps) |->
     [comps[i] EXCEPT
        !.connections = [k \in 1..Len(comps[i].connections) |->
                           StrengthenConnection(comps[i].connections[k])]]]

improveCoherence(comps) ==
  [i \in 1..Len(comps) |->
     [comps[i] EXCEPT !.state.efficiency = Min(SCALE, @ + 200),
                      !.state.adaptationRate = Max(500, @ - 100)]]

optimizeArchitecture(comps) ==
  LET avgLoad == Div(SumSeq([i \in 1..Len(comps) |-> comps[i].state.load]),
                     Len(comps))
  IN [i \in 1..Len(comps) |->
        IF ~IsNaN(avgLoad) /\ comps[i].state.load > (avgLoad * 6) \div 5
          THEN [comps[i] EXCEPT !.state.load = Max(1000, @ - 1000)]
          ELSE comps[i]]

applyArchitecturalEvolution(comps, evolution) ==
  CASE evolution.type = "synergy_improvement" -> improveSynergy(comps)
    [] evolution.type = "coherence_improvement" -> improveCoherence(comps)
    [] evolution.type = "optimization" -> optimizeArchitecture(comps)

\* Mutant: the autogenesis switch is not consulted
evolveArchitectureAlways(comps, state, enabled, threshold, now) ==
  LET evolution == planArchitecturalEvolution(state, threshold)
  IN IF evolution.shouldEvolve
       THEN [comps |-> applyArchitecturalEvolution(comps, evolution),
             state |-> [state EXCEPT !.evolutionCount = @ + 1, !.lastEvolution = now],
             events |-> <<ArchEvent("architecture_evolution", Id(evolution.type, 0, 0),
                                    evolution.expectedImprovement)>>]
       ELSE [comps |-> comps, state |-> state, events |-> <<>>]

\* Mutant: lastEvolution is stamped whether or not an evolution is applied
evolveArchitectureStamping(comps, state, enabled, threshold, now) ==
  LET evolution == planArchitecturalEvolution(state, threshold)
  IN IF enabled /\ evolution.shouldEvolve
       THEN [comps |-> applyArchitecturalEvolution(comps, evolution),
             state |-> [state EXCEPT !.evolutionCount = @ + 1, !.lastEvolution = now],
             events |-> <<ArchEvent("architecture_evolution", Id(evolution.type, 0, 0),
                                    evolution.expectedImprovement)>>]
       ELSE [comps |-> comps, state |-> [state EXCEPT !.lastEvolution = now],
             events |-> <<>>]

\* evolveArchitecture: the components, the architectural state and the events
\* emitted; now is the value of Date.now() at line 751
evolveArchitecture(comps, state, enabled, threshold, now) ==
  LET evolution == planArchitecturalEvolution(state, threshold)
  IN IF enabled /\ evolution.shouldEvolve
       THEN [comps |-> applyArchitecturalEvolution(comps, evolution),
             state |-> [state EXCEPT !.evolutionCount = @ + 1, !.lastEvolution = now],
             events |-> <<ArchEvent("architecture_evolution", Id(evolution.type, 0, 0),
                                    evolution.expectedImprovement)>>]
       ELSE [comps |-> comps, state |-> state, events |-> <<>>]

\* The body of the inner forEach of optimizeConnections
OptimizeConnection(connection) ==
  [connection EXCEPT
     !.bandwidth = IF connection.reliability > 9500
                     THEN Min(2000 * SCALE, (@ * 51) \div 50)
                   ELSE IF connection.reliability < 8000
                     THEN Max(100 * SCALE, (@ * 49) \div 50)
                   ELSE @,
     !.latency = Max(SCALE, @ - 5000)]

optimizeConnections(comps) ==
  [i \in 1..Len(comps) |->
     [comps[i] EXCEPT
        !.connections = [k \in 1..Len(comps[i].connections) |->
                           OptimizeConnection(comps[i].connections[k])]]]

adaptComponentBehavior(comps) ==
  [i \in 1..Len(comps) |->
     LET health == calculateComponentHealth(comps[i])
     IN IF health > 8000
          THEN [comps[i] EXCEPT !.state.adaptationRate = Min(3000, @ + 100)]
        ELSE IF health < 6000
          THEN [comps[i] EXCEPT !.state.adaptationRate = Max(500, @ - 100)]
        ELSE comps[i]]

(***************************************************************************)
(* The synergy control loop: the emergence cycle                           *)
(***************************************************************************)
\* The pairs (i, j), i < j, in the order of the two loops of lines 942-943
PairSeq(n) ==
  SelectSeq([k \in 1..(n * n) |-> <<((k - 1) \div n) + 1, ((k - 1) % n) + 1>>],
            LAMBDA p : p[1] < p[2])

\* The k-th interaction draws the k-th random value of the cycle for its novelty
analyzeComponentInteractions(comps, stream) ==
  LET pairs == PairSeq(Len(comps))
  IN [k \in 1..Len(pairs) |->
        LET comp1 == comps[pairs[k][1]]
            comp2 == comps[pairs[k][2]]
        IN [pair |-> k,
            type |-> <<comp1.type, comp2.type>>,
            components |-> <<comp1.id, comp2.id>>,
            complexity |-> (comp1.metrics.emergentProperties
                            + comp2.metrics.emergentProperties) \div 2,
            stability |-> Min(comp1.state.efficiency, comp2.state.efficiency),
            novelty |-> Mul(Rand(stream, k), 8000) + 2000,
            utility |-> (comp1.metrics.synergyContribution
                         + comp2.metrics.synergyContribution) \div 2]]

analyzePotentialEmergence(comps, stream, cycle) ==
  LET interactions ==
        SelectSeq(analyzeComponentInteractions(comps, stream),
                  LAMBDA x : x.complexity > 8000 /\ x.stability > 7000)
  IN [k \in 1..Len(interactions) |->
        [id |-> Id("emergence", cycle, interactions[k].pair),
         type |-> interactions[k].type,
         strength |-> interactions[k].complexity,
         stability |-> interactions[k].stability,
         novelty |-> interactions[k].novelty,
         utility |-> interactions[k].utility,
         components |-> interactions[k].components]]

\* detectEmergentBehaviors, registerEmergentBehavior included: the new registry of
\* behaviors and the events emitted
detectEmergentBehaviors(behaviors, comps, stream, cycle) ==
  LET registered ==
        SelectSeq(analyzePotentialEmergence(comps, stream, cycle),
                  LAMBDA e : e.strength > 7000 /\ e.novelty > 6000)
  IN [behaviors |-> behaviors \o registered,
      events |-> [k \in 1..Len(registered) |->
                    ArchEvent("emergent_behavior_detected", registered[k].id, 0)]]

\* Mutant: the utility score never falls below the removal threshold
calculateEmergentUtilityFloored(behavior, state) ==
  IF IsNaN(state.synergyLevel) THEN NaN
  ELSE Max(3000, Min(SCALE, Mul(behavior.strength, 3000) + Mul(behavior.stability, 3000)
                            + Mul(behavior.novelty, 2000)
                            + Mul(state.synergyLevel, 2000)))

\* Mutant: the stored utility is taken as the score
calculateEmergentUtilityStored(behavior, state) == behavior.utility

calculateEmergentUtility(behavior, state) ==
  IF IsNaN(state.synergyLevel) THEN NaN
  ELSE Max(0, Min(SCALE, Mul(behavior.strength, 3000) + Mul(behavior.stability, 3000)
                         + Mul(behavior.novelty, 2000)
                         + Mul(state.synergyLevel, 2000)))

evaluateEmergentUtility(behaviors, state) ==
  LET scored == [k \in 1..Len(behaviors) |->
                   [behaviors[k] EXCEPT
                      !.utility = calculateEmergentUtility(behaviors[k], state)]]
      removed == SelectSeq(scored, LAMBDA b : Less(b.utility, 3000))
  IN [behaviors |-> SelectSeq(scored, LAMBDA b : ~Less(b.utility, 3000)),
      events |-> [k \in 1..Len(removed) |->
                    ArchEvent("emergent_behavior_removed", removed[k].id, 0)]]

\* Mutant: every promotion adds an entry, whether or not its id is taken
promoteAppending(pats, behavior, comps) ==
  Append(pats,
         ArchitecturalPattern(
           Id("pattern_emergence", behavior.id.cycle, behavior.id.pair),
           SelectSeq(behavior.components, LAMBDA id : MapHas(comps, id)),
           "emergent", behavior.utility, behavior.stability, behavior.novelty))

promoteToArchitecturalPattern(pats, behavior, comps) ==
  MapSet(pats,
         ArchitecturalPattern(
           Id("pattern_emergence", behavior.id.cycle, behavior.id.pair),
           SelectSeq(behavior.components, LAMBDA id : MapHas(comps, id)),
           "emergent", behavior.utility, behavior.stability, behavior.novelty))

RECURSIVE stabilizeEmergentPatterns(_, _, _)
stabilizeEmergentPatterns(pats, behaviors, comps) ==
  IF behaviors = <<>> THEN [patterns |-> pats, events |-> <<>>]
  ELSE LET behavior == Head(behaviors)
           promote == Greater(behavior.utility, 7000) /\ behavior.stability > 8000
           rest == stabilizeEmergentPatterns(
                     IF promote THEN promoteToArchitecturalPattern(pats, behavior, comps)
                     ELSE pats,
                     Tail(behaviors), comps)
       IN [patterns |-> rest.patterns,
           events |-> (IF promote
                         THEN <<ArchEvent("pattern_promoted", behavior.id, 0)>>
                         ELSE <<>>) \o rest.events]

(***************************************************************************)
(* The synergy control loop: the agent cycle                               *)
(***************************************************************************)
\* progress + step in binary64, in units of 1/SCALE.  One rounding of the source
\* changes a comparison with 1.0 and is kept: 0.7 + 0.1 is 0.7999999999999999, so
\* that steps of 0.1 from 0.6 or from 0 reach 0.9999999999999999, short of 1.0.
AddProgress(progress, step) ==
  Min(SCALE, IF progress = 7000 /\ step = 1000 THEN 7999 ELSE progress + step)

SetKnowledge(agent, value) ==
  [agent EXCEPT !.state.knowledge = MapSet(@, value)]

Advance(agent, step) ==
  [agent EXCEPT !.state.progress = AddProgress(@, step)]

executeOrchestratorGoals(agent) ==
  CASE agent.state.currentGoal = "optimize_performance" -> Advance(agent, 1000)
    [] agent.state.currentGoal = "maintain_coherence" -> Advance(agent, 800)
    [] agent.state.currentGoal = "ensure_resilience" -> Advance(agent, 1200)
    [] OTHER -> agent

executeAnalyzerGoals(agent) ==
  CASE agent.state.currentGoal = "identify_issues" ->
         Advance(SetKnowledge(agent, KEmptyList("identified_issues")), 1500)
    [] agent.state.currentGoal = "predict_problems" ->
         Advance(SetKnowledge(agent, KEmptyList("predictions")), 1000)
    [] OTHER -> agent

executeLearnerGoals(agent) ==
  CASE agent.state.currentGoal = "improve_accuracy" -> Advance(agent, 800)
    [] agent.state.currentGoal = "discover_patterns" ->
         Advance(SetKnowledge(agent, KEmptyList("discovered_patterns")), 1200)
    [] OTHER -> agent

executeAgentGoals(agent) ==
  CASE agent.role = "orchestrator" -> executeOrchestratorGoals(agent)
    [] agent.role = "analyzer" -> executeAnalyzerGoals(agent)
    [] agent.role = "learner" -> executeLearnerGoals(agent)
    [] OTHER -> agent

IndexOf(s, x) == IF InSeq(x, s) THEN CHOOSE i \in 1..Len(s) : s[i] = x ELSE 0

GoalCompleted(agent) == agent.state.progress >= SCALE

\* Mutant: a completed goal leaves the agent on the same goal
updateAgentProgressSameGoal(agent) ==
  IF GoalCompleted(agent) THEN [agent EXCEPT !.state.progress = 0] ELSE agent

updateAgentProgress(agent) ==
  IF GoalCompleted(agent)
    THEN LET currentIndex == IndexOf(agent.goals, agent.state.currentGoal)
             nextIndex == (currentIndex % Len(agent.goals)) + 1
         IN [agent EXCEPT !.state.currentGoal = agent.goals[nextIndex],
                          !.state.progress = 0]
    ELSE agent

evaluateAgentPerformance(agent) ==
  [agent EXCEPT
     !.performance.taskCompletion = Min(SCALE, agent.state.progress),
     !.performance.resourceEfficiency = SCALE - agent.state.cpu,
     !.performance.learningRate = Mul(agent.state.experience, 3000),
     !.state.experience = Min(SCALE, @ + 10)]

\* executeAutonomousAgents: the agents and the events emitted
executeAutonomousAgents(agents) ==
  LET acted == [k \in 1..Len(agents) |->
                  IF agents[k].state.active THEN executeAgentGoals(agents[k])
                  ELSE agents[k]]
      completed == SelectSeq(acted, LAMBDA a : a.state.active /\ GoalCompleted(a))
  IN [agents |-> [k \in 1..Len(agents) |->
                    IF acted[k].state.active
                      THEN evaluateAgentPerformance(updateAgentProgress(acted[k]))
                      ELSE acted[k]],
      events |-> [k \in 1..Len(completed) |->
                    ArchEvent("agent_goal_completed", Id(completed[k].id, 0, 0),
                              [completedGoal |-> completed[k].state.currentGoal,
                               newGoal |-> updateAgentProgress(completed[k]).state.currentGoal])]]

\* Map.prototype.set of each value in turn: a key keeps the place of its first
\* value and holds its last one
SetAll(m, values) ==
  LET Keyed(all, first) ==
        [k \in 1..Len(first) |->
           all[CHOOSE i \in 1..Len(all) :
                 /\ all[i].id = all[first[k]].id
                 /\ \A j \in (i + 1)..Len(all) : all[j].id # all[i].id]]
      FirstOf(all) ==
        SelectSeq([i \in 1..Len(all) |-> i],
                  LAMBDA i : \A j \in 1..(i - 1) : all[j].id # all[i].id)
  IN CHOOSE result \in {Keyed(all, first) : all \in {m \o values},
                                              first \in {FirstOf(m \o values)}} : TRUE

RECURSIVE Flatten(_)
Flatten(ss) == IF ss = <<>> THEN <<>> ELSE Head(ss) \o Flatten(Tail(ss))

\* Mutant: no knowledge is distributed
coordinateAgentActivitiesApart(agents) == agents

coordinateAgentActivities(agents) ==
  LET sharedKnowledge ==
        SetAll(<<>>, Flatten([k \in 1..Len(agents) |-> agents[k].state.knowledge]))
  IN [k \in 1..Len(agents) |->
        [agents[k] EXCEPT
           !.state.knowledge =
              @ \o SelectSeq(sharedKnowledge,
                             LAMBDA v : ~MapHas(agents[k].state.knowledge, v.id))]]

updateAgentKnowledge(agents, state, behaviors) ==
  LET systemState == [synergyLevel |-> state.synergyLevel,
                      coherence |-> state.coherence,
                      resilience |-> state.resilience,
                      emergentBehaviors |-> Len(behaviors)]
  IN [k \in 1..Len(agents) |->
        SetKnowledge(agents[k], KSystemState("system_state", systemState))]

\* getArchitecturalStatistics: the two component counts of its result.  The total
\* is read off the registry, the active count off the ArchitecturalState
getArchitecturalStatistics(comps, state) ==
  [totalComponents |-> Len(comps), activeComponents |-> state.activeComponents]

(***************************************************************************)
(* The synergy control loop: actions                                       *)
(***************************************************************************)
\* The periods of the four interval timers, in milliseconds
HealthPeriod == 5000

AgentPeriod == 10000

EvolutionPeriod == 30000

EmergencePeriod == 60000

\* Timers fire in the order they fall due and an interval is re-armed when its
\* callback has run.  So a cycle runs at least once, and at most as often as the
\* periods allow, between two runs of the next slower cycle: health before agents,
\* agents before evolution, evolution before emergence.
NoTimers == [health |-> 0, emergence |-> 0, healthSinceAgents |-> 0,
             agentsSinceEvolution |-> 0, evolutionSinceEmergence |-> 0]

\* Date.now() of the SynergyArchitecture, counted from its construction in steps
\* of the fastest timer
Now(t) == t.health * HealthPeriod

\* The streams Math.random() may produce during one cycle: a low value each time,
\* or a high value each time
RandomStreams == {<<0>>, <<9000>>}

\* Math.random() returning 0.5 each time: load and efficiency stay as they are
SteadyStream == <<5000>>

\* The component a caller or a listener adds
ExtraComponent ==
  Component("extra_component", "adaptive", <<>>,
            ComponentState(9500, 5500, 1000),
            ComponentMetrics(10, 10, 5000, 5000, 5000, 5000))

NoListener == Listener("", "none", "", ExtraComponent)

\* Listeners of 'component_health': none; one that removes a component the walk
\* has already visited; one that removes a component still to be visited; one
\* that adds a component
Listeners ==
  {NoListener,
   Listener("behavioral_adapter", "remove", "cognitive_processor", ExtraComponent),
   Listener("cognitive_processor", "remove", "adaptive_learner", ExtraComponent),
   Listener("cognitive_processor", "add", "", ExtraComponent)}

SeedComponentIds == MapKeys(initializeCoreComponents)

\* The ids removeComponent is called with: a seed component, one that was never
\* registered
ComponentIds == {"emergent_intelligence", "missing_component"}

\* The numbers the threshold setters are called with
ThresholdInputs == Thresholds \cup {0, SCALE, NaN}

\* What a caller may write into a behavior object that getArchitecturalState()
\* handed out: the stored utility alone, or the utility with the three scores it
\* is computed from
ForcedValue == SCALE \div 10

ForcedFields == {{"utility"}, {"utility", "strength", "stability", "novelty"}}

\* Arch steps emit nothing on the CognitiveOrchestrator
ArchStep(name) ==
  /\ lastCycle' = name
  /\ events' = <<>>
  /\ UNCHANGED cogVars

\* The 5 s timer: monitorComponentHealth, updateArchitecturalState,
\* detectPerformanceAnomalies
HealthTick(stream, listener) ==
  /\ timers.health < MaxHealthTicks
  /\ timers.healthSinceAgents < AgentPeriod \div HealthPeriod
  /\ LET m == monitorComponentHealth(components, stream, listener)
     IN /\ components' = m.comps
        /\ architecturalState' =
             updateArchitecturalState(architecturalState, m.comps, emergentBehaviors)
        /\ archEvents' = m.events \o detectPerformanceAnomalies(m.comps)
  /\ timers' = [timers EXCEPT !.health = @ + 1, !.healthSinceAgents = @ + 1]
  /\ ArchStep("health")
  /\ UNCHANGED <<patterns, emergentBehaviors, autonomousAgents, autogenesisEnabled,
                 synergyThreshold>>

\* The 30 s timer: evolveArchitecture, optimizeConnections, adaptComponentBehavior
EvolutionTick ==
  /\ timers.agentsSinceEvolution >= 1
  /\ timers.evolutionSinceEmergence < EmergencePeriod \div EvolutionPeriod
  /\ LET evolved == evolveArchitecture(components, architecturalState,
                                       autogenesisEnabled, synergyThreshold,
                                       Now(timers))
     IN /\ components' = adaptComponentBehavior(optimizeConnections(evolved.comps))
        /\ architecturalState' = evolved.state
        /\ archEvents' = evolved.events
  /\ timers' = [timers EXCEPT !.agentsSinceEvolution = 0,
                              !.evolutionSinceEmergence = @ + 1]
  /\ ArchStep("evolution")
  /\ UNCHANGED <<patterns, emergentBehaviors, autonomousAgents, autogenesisEnabled,
                 synergyThreshold>>

\* The 60 s timer: detectEmergentBehaviors, evaluateEmergentUtility,
\* stabilizeEmergentPatterns
EmergenceTick(stream) ==
  /\ timers.evolutionSinceEmergence >= 1
  /\ LET detected == detectEmergentBehaviors(emergentBehaviors, components, stream,
                                             timers.emergence + 1)
         evaluated == evaluateEmergentUtility(detected.behaviors, architecturalState)
         stabilized == stabilizeEmergentPatterns(patterns, evaluated.behaviors,
                                                 components)
     IN /\ emergentBehaviors' = evaluated.behaviors
        /\ patterns' = stabilized.patterns
        /\ archEvents' = detected.events \o evaluated.events \o stabilized.events
  /\ timers' = [timers EXCEPT !.emergence = @ + 1, !.evolutionSinceEmergence = 0]
  /\ ArchStep("emergence")
  /\ UNCHANGED <<components, autonomousAgents, architecturalState,
                 autogenesisEnabled, synergyThreshold>>

\* The 10 s timer: executeAutonomousAgents, coordinateAgentActivities,
\* updateAgentKnowledge
AgentTick ==
  /\ timers.healthSinceAgents >= 1
  /\ timers.agentsSinceEvolution < EvolutionPeriod \div AgentPeriod
  /\ LET executed == executeAutonomousAgents(autonomousAgents)
     IN /\ autonomousAgents' =
             updateAgentKnowledge(coordinateAgentActivities(executed.agents),
                                  architecturalState, emergentBehaviors)
        /\ archEvents' = executed.events
  /\ timers' = [timers EXCEPT !.healthSinceAgents = 0, !.agentsSinceEvolution = @ + 1]
  /\ ArchStep("agents")
  /\ UNCHANGED <<components, patterns, emergentBehaviors, architecturalState,
                 autogenesisEnabled, synergyThreshold>>

\* The 10 s timer on its own, for as long as the process runs: the callback of
\* AgentTick, with the bookkeeping of the other three timers left aside
AgentTimer ==
  /\ \E executed \in {executeAutonomousAgents(autonomousAgents)} :
       \E coordinated \in {coordinateAgentActivities(executed.agents)} :
         /\ autonomousAgents' =
              updateAgentKnowledge(coordinated, architecturalState, emergentBehaviors)
         /\ archEvents' = executed.events
  /\ ArchStep("agents")
  /\ UNCHANGED <<components, patterns, emergentBehaviors, architecturalState,
                 autogenesisEnabled, synergyThreshold, timers>>

AddComponent(component) ==
  /\ LET r == addComponent(components, component)
     IN components' = r.comps /\ archEvents' = r.events
  /\ ArchStep("addComponent")
  /\ UNCHANGED <<patterns, emergentBehaviors, autonomousAgents, architecturalState,
                 autogenesisEnabled, synergyThreshold, timers>>

RemoveComponent(componentId) ==
  /\ LET r == removeComponent(components, componentId)
     IN components' = r.comps /\ archEvents' = r.events
  /\ ArchStep("removeComponent")
  /\ UNCHANGED <<patterns, emergentBehaviors, autonomousAgents, architecturalState,
                 autogenesisEnabled, synergyThreshold, timers>>

\* A caller writes fields of the k-th registered behavior: getArchitecturalState()
\* returns the behavior objects of the registry themselves
WriteBehavior(k, fields, value) ==
  /\ k \in 1..Len(emergentBehaviors)
  /\ LET behavior == emergentBehaviors[k]
     IN emergentBehaviors' =
          [emergentBehaviors EXCEPT
             ![k] = [f \in DOMAIN behavior |->
                       IF f \in fields THEN value ELSE behavior[f]]]
  /\ archEvents' = <<>>
  /\ ArchStep("writeBehavior")
  /\ UNCHANGED <<components, patterns, autonomousAgents, architecturalState,
                 autogenesisEnabled, synergyThreshold, timers>>

SetAutogenesisEnabled(enabled) ==
  /\ autogenesisEnabled' = enabled
  /\ archEvents' = <<ArchEvent("autogenesis_change", NoId, IF enabled THEN 1 ELSE 0)>>
  /\ ArchStep("setAutogenesisEnabled")
  /\ UNCHANGED <<components, patterns, emergentBehaviors, autonomousAgents,
                 architecturalState, synergyThreshold, timers>>

SetSynergyThreshold(threshold) ==
  /\ synergyThreshold' = ClampUnit(threshold)
  /\ archEvents' = <<>>
  /\ ArchStep("setSynergyThreshold")
  /\ UNCHANGED <<components, patterns, emergentBehaviors, autonomousAgents,
                 architecturalState, autogenesisEnabled, timers>>

\* The SynergyArchitecture after its constructor
ArchInit ==
  /\ components = initializeCoreComponents
  /\ patterns = initializeArchitecturalPatterns(initializeCoreComponents)
  /\ emergentBehaviors = <<>>
  /\ autonomousAgents = initializeAutonomousAgents
  /\ architecturalState = InitialArchitecturalState
  /\ autogenesisEnabled = TRUE
  /\ synergyThreshold = 7000
  /\ timers = NoTimers
  /\ archEvents = <<>>
  /\ lastCycle = "constructor"

vars == <<cogVars, events, archVars>>

(***************************************************************************)
(* Specifications                                                          *)
(***************************************************************************)
Init == CogInit /\ ArchInit

\* Overlapping processInput calls, reset() and setLearningEnabled() at any point
Next ==
  \/ \E input \in Inputs : ProcessInput(input)
  \/ MicrotaskStep
  \/ Reset
  \/ \E enabled \in BOOLEAN : SetLearningEnabled(enabled)

Spec == Init /\ [][Next]_vars

\* Awaited processInput calls that activate up to seven nodes, reset(), and a
\* pattern over nodes of two seed groups added and removed
NextFocus ==
  \/ \E input \in FocusInputs, t \in ProcTimes :
        ProcessInputSync(input, t, 0, MaxFocusCalls)
  \/ Reset
  \/ AddCognitivePattern(TurnTakingPattern)
  \/ RemoveCognitivePattern(TurnTakingPattern.id)

SpecFocus == Init /\ [][NextFocus]_vars

\* Awaited calls, fast and slow, on the seed patterns only, and reset()
NextCeiling ==
  \/ \E input \in CeilingInputs, t \in ProcTimes :
        ProcessInputSync(input, t, 0, MaxFocusCalls)
  \/ Reset

SpecCeiling == Init /\ [][NextCeiling]_vars

\* Overlapping processInput calls and setLearningEnabled() at any point
NextEmit ==
  \/ ProcessInput(InDialog)
  \/ MicrotaskStep
  \/ \E enabled \in BOOLEAN : SetLearningEnabled(enabled)

SpecEmit == Init /\ [][NextEmit]_vars

\* processInput (every call awaited), reset() and pattern management in any order
NextApi ==
  \/ \E input \in ApiInputs, t \in ProcTimes :
        ProcessInputSync(input, t, 0, MaxApiCalls)
  \/ Reset
  \/ \E pattern \in CustomPatterns : AddCognitivePattern(pattern)
  \/ \E patternId \in PatternIds : RemoveCognitivePattern(patternId)
  \/ \E enabled \in BOOLEAN : SetLearningEnabled(enabled)

SpecApi == Init /\ [][NextApi]_vars

\* Long runs of awaited calls: a slow call on null input, a fast call on a message
NextLearn ==
  \/ ProcessInputSync(InNull, 6000, 0, MaxLearnCalls)
  \/ ProcessInputSync(InMessage, 0, 0, MaxLearnCalls)
  \/ AddCognitivePattern(BoostPattern)

SpecLearn == Init /\ [][NextLearn]_vars

\* The four cycles of the synergy control loop, calls of addComponent and
\* removeComponent between them and from listeners, and reset()
NextArch ==
  \/ \E stream \in RandomStreams, listener \in Listeners : HealthTick(stream, listener)
  \/ AgentTick
  \/ EvolutionTick
  \/ \E stream \in RandomStreams : EmergenceTick(stream)
  \/ AddComponent(ExtraComponent)
  \/ RemoveComponent("emergent_intelligence")
  \/ Reset

SpecArch == Init /\ [][NextArch]_vars

\* The registry emptied and refilled by calls of removeComponent and addComponent,
\* between cycles that no listener observes
NextRegistry ==
  \/ HealthTick(SteadyStream, NoListener)
  \/ AgentTick
  \/ EvolutionTick
  \/ EmergenceTick(SteadyStream)
  \/ AddComponent(ExtraComponent)
  \/ \E componentId \in Range(SeedComponentIds) : RemoveComponent(componentId)

SpecRegistry == Init /\ [][NextRegistry]_vars

\* The four cycles, and a caller that writes into the first registered behavior
NextEmergence ==
  \/ \E stream \in RandomStreams : HealthTick(stream, NoListener)
  \/ AgentTick
  \/ EvolutionTick
  \/ \E stream \in RandomStreams : EmergenceTick(stream)
  \/ \E fields \in ForcedFields : WriteBehavior(1, fields, ForcedValue)

SpecEmergence == Init /\ [][NextEmergence]_vars

\* The four cycles, calls of removeComponent down to an empty registry, and a
\* caller that forces the stored utility of the first registered behavior
NextRetention ==
  \/ HealthTick(SteadyStream, NoListener)
  \/ AgentTick
  \/ EvolutionTick
  \/ \E stream \in RandomStreams : EmergenceTick(stream)
  \/ \E componentId \in Range(SeedComponentIds) : RemoveComponent(componentId)
  \/ WriteBehavior(1, {"utility"}, ForcedValue)

SpecRetention == Init /\ [][NextRetention]_vars

\* The agent scheduler ticking for ever, and setAutonomousMode() calls between ticks
NextAgents ==
  \/ AgentTimer
  \/ \E enabled \in BOOLEAN : SetAutonomousMode(enabled)

\* setInterval keeps firing its callback: the agent cycle is never postponed for ever
SpecAgents == Init /\ [][NextAgents]_vars /\ WF_vars(AgentTimer)

\* One awaited call after the other
NextHist == ProcessInputSync(InMessage, 0, 0, MaxHistCalls)

SpecHist == Init /\ [][NextHist]_vars

\* Calls on null, empty and malformed inputs, and removePattern calls between them
NextDegrade ==
  \/ \E input \in DegradeInputs : ProcessInput(input)
  \/ MicrotaskStep
  \/ \E patternId \in PatternIds : RemoveCognitivePattern(patternId)

SpecDegrade == Init /\ [][NextDegrade]_vars

\* Awaited calls whose text selects a template, on a fresh system and after it
NextTemplates ==
  \/ \E input \in TemplateInputs, t \in ProcTimes, g \in GreetingChoices :
        ProcessInputSync(input, t, g, MaxApiCalls)
  \/ Reset

SpecTemplates == Init /\ [][NextTemplates]_vars

\* Awaited calls with and without the dialog flag, among pattern management calls
\* and reset()
NextDialog ==
  \/ \E input \in ApiInputs, t \in ProcTimes :
        ProcessInputSync(input, t, 0, MaxApiCalls)
  \/ Reset
  \/ AddCognitivePattern(StrictDialogPattern)
  \/ \E patternId \in DialogPatternIds : RemoveCognitivePattern(patternId)

SpecDialog == Init /\ [][NextDialog]_vars

\* Configuration and registry calls of both objects, in any order
NextConfig ==
  \/ \E pattern \in CustomPatterns : AddCognitivePattern(pattern)
  \/ \E patternId \in PatternIds : RemoveCognitivePattern(patternId)
  \/ AddComponent(ExtraComponent)
  \/ \E componentId \in ComponentIds : RemoveComponent(componentId)
  \/ \E threshold \in ThresholdInputs : SetAdaptationThreshold(threshold)
  \/ \E threshold \in ThresholdInputs : SetSynergyThreshold(threshold)

SpecConfig == Init /\ [][NextConfig]_vars

\* Awaited calls on texts, among pattern management calls
NextIntent ==
  \/ \E input \in IntentInputs, g \in GreetingChoices :
        ProcessInputSync(input, 0, g, MaxApiCalls)
  \/ \E pattern \in CustomPatterns : AddCognitivePattern(pattern)
  \/ \E patternId \in PatternIds : RemoveCognitivePattern(patternId)

SpecIntent == Init /\ [][NextIntent]_vars

\* The four cycles, with the evolution switches and the registry changed between
\* them
NextEvolution ==
  \/ HealthTick(SteadyStream, NoListener)
  \/ AgentTick
  \/ EvolutionTick
  \/ EmergenceTick(SteadyStream)
  \/ \E enabled \in BOOLEAN : SetAutogenesisEnabled(enabled)
  \/ \E threshold \in Thresholds : SetSynergyThreshold(threshold)
  \/ AddComponent(ExtraComponent)
  \/ RemoveComponent("emergent_intelligence")

SpecEvolution == Init /\ [][NextEvolution]_vars

(***************************************************************************)
(* Claims about the reasoning engine                                       *)
(***************************************************************************)
\* What a caller sees of a call's response
ResponseView(c) ==
  [confidence |-> c.response.confidence,
   synergyLevel |-> c.response.synergyLevel,
   adaptations |-> c.response.adaptations,
   activePatterns |-> c.response.metadata.activePatterns]

\* A CognitiveState, timestamps aside
Untimed(h) ==
  [i \in 1..Len(h) |-> [trigger |-> h[i].trigger, adaptation |-> h[i].adaptation,
                         effectiveness |-> h[i].effectiveness]]

StateView(cs) == [cs EXCEPT !.adaptationHistory = Untimed(@)]

\* The engine right after construction
Engine0(le) == Engine(SeedCognitiveState, <<>>, initializeBasicPatterns, le, 0, 0)

\* Call a awaited, then call b, from the state after construction; la, lb tell
\* whether learning is enabled during each.
SerialRun(a, b, ta, tb, la, lb) ==
  LET ra == RunToCompletion(StartCall(Engine0(la), a.id, a.input, FALSE), ta, 0)
      rb == RunToCompletion(
              StartCall([ra.eng EXCEPT !.learningEnabled = lb], b.id, b.input, FALSE),
              tb, 0)
  IN [first |-> ra.call, second |-> rb.call, cs |-> rb.eng.cs]

SameAsSerial(a, b) ==
  \E ta \in ProcTimes, tb \in ProcTimes, la \in BOOLEAN, lb \in BOOLEAN :
    LET r == SerialRun(a, b, ta, tb, la, lb)
    IN /\ ResponseView(a) = ResponseView(r.first)
       /\ ResponseView(b) = ResponseView(r.second)
       /\ StateView(cognitiveState) = StateView(r.cs)

\* C1 (as claimed): two processInput calls, the second started before the first
\* has resolved, give the responses and the final CognitiveState of the two calls
\* run one after the other, in one order or the other.
C1_Serializable ==
  (/\ stateObj = 0
   /\ Len(calls) = 2
   /\ calls[1].pc = "done"
   /\ calls[2].pc = "done")
  => (SameAsSerial(calls[1], calls[2]) \/ SameAsSerial(calls[2], calls[1]))

\* C2 (as claimed): when reset() ran while the only call made was in flight, then
\* once that call has completed the CognitiveState is the seeded one: empty
\* adaptation history, learning rate 0.1.
C2_ResetStopsBookkeeping ==
  (/\ Len(calls) = 1
   /\ calls[1].resetInFlight
   /\ calls[1].pc = "done")
  => /\ cognitiveState.adaptationHistory = <<>>
     /\ cognitiveState.learningRate = 1000
     /\ cognitiveState = SeedCognitiveState

IsCognition(e) == e.name = "cognition"

\* C8: every call emits its 'cognition' event exactly once, as its last step: no
\* event before the call is done (so not before the response is assembled, nor
\* before the learn step), one event once it is done, learning enabled or not; the
\* event carries the call's input and its assembled response.
C8_OneCognitionEvent ==
  /\ \A i \in 1..Len(calls) :
       /\ calls[i].pc = "done" => calls[i].emits = 1
       /\ calls[i].pc # "done" => calls[i].emits = 0
  /\ \A k \in 1..Len(events) :
       IsCognition(events[k]) =>
         /\ Len(events) = 1
         /\ calls[events[k].call].pc = "done"
         /\ events[k].input = calls[events[k].call].input
         /\ events[k].response = calls[events[k].call].response
         /\ events[k].response.type = "cognitive_response"

\* C8 witness: two calls are done, one that learned and one that ran with learning
\* disabled, and the event of the second has just been emitted.
C8_Witness ==
  /\ Len(calls) = 2
  /\ calls[1].pc = "done" /\ calls[2].pc = "done"
  /\ calls[1].learned /\ ~calls[2].learned
  /\ Len(events) = 1 /\ IsCognition(events[1])

History == cognitiveState.adaptationHistory

\* A learn step is the only step that advances the clock
LearnStep == clock' = clock + 1

\* C4: the adaptation history never holds more than 100 records, and a learn step
\* appends its record at the end, evicting the oldest record when 100 are held: so
\* after 101 or more appends it is the 100 most recent records, in order.
C4_HistoryBound ==
  /\ [](Len(History) <= MaxHistory)
  /\ [][LearnStep =>
          LET rec == History'[Len(History')]
          IN /\ rec.timestamp = clock
             /\ History' = IF Len(History) < MaxHistory
                             THEN Append(History, rec)
                             ELSE Append(Tail(History), rec)]_vars

\* C4 witness: 100 records are held and the first ones appended have been evicted
C4_Witness ==
  /\ Len(History) = MaxHistory
  /\ History[1].timestamp >= 2
  /\ clock >= MaxHistory + 2

\* C5: the learning rate is always within [0.05, 0.2], and a learn step moves it by
\* +0.01 (capped at 0.2) when the recorded effectiveness is above 0.8, by -0.01
\* (floored at 0.05) when it is below 0.4, and not at all otherwise.
C5_LearningRate ==
  /\ [](cognitiveState.learningRate >= 500 /\ cognitiveState.learningRate <= 2000)
  /\ [][LearnStep =>
          LET e == History'[Len(History')].effectiveness
              old == cognitiveState.learningRate
          IN cognitiveState'.learningRate =
               IF e > 8000 THEN Min(2000, old + 100)
               ELSE IF e < 4000 THEN Max(500, old - 100)
               ELSE old]_vars

\* C5 witness: the rate sits at its cap after a learn step that found it there,
\* ten increments after a step in the middle band that had left it at 0.1
C5_Witness ==
  /\ cognitiveState.learningRate = 2000
  /\ Len(History) = 12
  /\ History[1].effectiveness >= 4000 /\ History[1].effectiveness <= 8000
  /\ \A i \in 2..12 : History[i].effectiveness > 8000

\* The rate has come down to its floor and a further step below 0.4 has left it there
C5_FloorWitness ==
  /\ cognitiveState.learningRate = 500
  /\ Len(History) = 6
  /\ \A i \in 1..6 : History[i].effectiveness < 4000

InUnit(x) == x >= 0 /\ x <= SCALE

\* C6 (as claimed): the synergy level of the CognitiveState, and the confidence and
\* synergy level of every response, are within [0, 1].
C6_UnitRange ==
  /\ InUnit(cognitiveState.synergyLevel)
  /\ \A k \in 1..Len(events) :
       IsCognition(events[k]) =>
         /\ InUnit(events[k].response.confidence)
         /\ InUnit(events[k].response.synergyLevel)

IsReset(evs) == Len(evs) = 1 /\ evs[1].name = "cognitive_reset"

Snapshot ==
  [activeNodes |-> cognitiveState.activeNodes,
   attentionalFocus |-> cognitiveState.attentionalFocus,
   synergyLevel |-> cognitiveState.synergyLevel,
   learningRate |-> cognitiveState.learningRate,
   adaptationHistory |-> cognitiveState.adaptationHistory,
   patterns |-> patternMatchers]

\* C9: reset() is idempotent: a reset() that directly follows a reset() leaves the
\* snapshot (active nodes, focus, synergy level, learning rate, history, pattern
\* library) as the first one left it.
C9_ResetIdempotent ==
  [][(IsReset(events) /\ IsReset(events')) => Snapshot' = Snapshot]_vars

\* C9 witness: the second of two resets has run, after calls that had learned and
\* a change of the pattern library
C9_Witness ==
  /\ IsReset(events)
  /\ stateObj = 2
  /\ clock = 2
  /\ Snapshot.adaptationHistory = <<>>

(***************************************************************************)
(* Claims about the synergy control loop                                   *)
(***************************************************************************)
EventIds(evs, name) ==
  LET hits == SelectSeq(evs, LAMBDA e : e.name = name)
  IN [k \in 1..Len(hits) |-> hits[k].id.name]

\* The components whose metrics the last health cycle recomputed
Recomputed == EventIds(archEvents, "component_health")

RegistryCalls ==
  Len(EventIds(archEvents, "component_added"))
  + Len(EventIds(archEvents, "component_removed"))

\* C3 (as claimed): a health cycle recomputes the metrics of the very components
\* its aggregates are computed over, and no addComponent or removeComponent call
\* takes effect between its first and its last step.
C3_NoTornHealthTick ==
  lastCycle = "health" =>
    /\ Recomputed = MapKeys(components)
    /\ architecturalState.totalComponents = Len(Recomputed)
    /\ RegistryCalls = 0

IsUnit(x) == ~IsNaN(x) /\ x >= 0 /\ x <= SCALE

\* C7 (as claimed): the synergy level, the coherence and the resilience of the
\* ArchitecturalState are numbers within [0, 1], also once every component has
\* been removed.
C7_AggregatesDefined ==
  /\ IsUnit(architecturalState.synergyLevel)
  /\ IsUnit(architecturalState.coherence)
  /\ IsUnit(architecturalState.resilience)

ReasoningEngineSeeded ==
  /\ patternMatchers = initializeBasicPatterns
  /\ cognitiveState.activeNodes = <<>>
  /\ cognitiveState.adaptationHistory = <<>>
  /\ cognitiveState.synergyLevel = 5000
  /\ cognitiveState.learningRate = 1000

ControlLoopSeeded ==
  /\ MapKeys(components) = SeedComponentIds
  /\ MapKeys(patterns) = MapKeys(initializeArchitecturalPatterns(initializeCoreComponents))
  /\ MapKeys(autonomousAgents) = MapKeys(initializeAutonomousAgents)
  /\ \A k \in 1..Len(autonomousAgents) :
       /\ autonomousAgents[k].state.currentGoal =
            initializeAutonomousAgents[k].state.currentGoal
       /\ autonomousAgents[k].state.progress =
            initializeAutonomousAgents[k].state.progress
  /\ emergentBehaviors = <<>>
  /\ architecturalState.evolutionCount = 0

\* C10 (as claimed): right after reset() the reasoning engine is at its seed (three
\* seed patterns, no active node, no history, synergy 0.5, learning rate 0.1) and
\* so is the synergy control loop (four seed components, four seed patterns, three
\* seed agents at their seeded goal and progress, no emergent behavior,
\* evolutionCount 0).
C10_ResetSeedsBoth ==
  IsReset(events) => (ReasoningEngineSeeded /\ ControlLoopSeeded)

(***************************************************************************)
(* Claims about inputs and responses                                       *)
(***************************************************************************)
IsNullOrEmpty(input) == input \in {InNull, InEmpty}

\* The call that the step made, if the step is a call of processInput
CallMade == Len(calls') = Len(calls) + 1

\* C11 (as claimed): a call on null or {} is never rejected and derives the
\* 'general' intent, in every reachable state; the response it resolves with has
\* type 'cognitive_response'; the call adds no node to the active set.
C11_NullAndEmptyDegrade ==
  [][/\ \A i \in 1..Len(calls') :
          IsNullOrEmpty(calls'[i].input) =>
            /\ calls'[i].pc # "rejected"
            /\ calls'[i].intent.intent = "general"
            /\ calls'[i].pc = "done" => calls'[i].response.type = "cognitive_response"
     /\ (CallMade /\ IsNullOrEmpty(calls'[Len(calls')].input)) =>
          cognitiveState'.activeNodes = cognitiveState.activeNodes]_vars

\* C12 (as claimed): no call is rejected, whatever its input, a text that is not a
\* string included; and a call that fails leaves the state as it found it.
C12_MalformedDegrade ==
  [][/\ \A i \in 1..Len(calls') : calls'[i].pc # "rejected"
     /\ (CallMade /\ calls'[Len(calls')].pc = "rejected") =>
          (cognitiveState' = cognitiveState /\ atomSpace' = atomSpace)]_vars

\* The engine as construction or reset() leaves it
Fresh ==
  /\ cognitiveState = SeedCognitiveState
  /\ atomSpace = <<>>
  /\ patternMatchers = initializeBasicPatterns

\* The step is an awaited call on input that has emitted its 'cognition' event
Answered(input) ==
  /\ Len(events') = 1
  /\ IsCognition(events'[1])
  /\ events'[1].input = input

\* C13 (as claimed): on a fresh system the answer to 'Hi there!' contains 'Hello',
\* whichever greeting is drawn, and has confidence above 0.5.
C13_GreetingToken ==
  [][(Fresh /\ Answered(InGreeting)) =>
       /\ Includes(ContentText(events'[1].response.content), <<"H", "e", "l", "l", "o">>)
       /\ events'[1].response.confidence > 5000]_vars

\* C14: on a fresh system the answer to a text that contains 'help' or 'assist'
\* contains 'assist' and has confidence above 0.5.
C14_AssistToken ==
  [][(Fresh /\ (Answered(InHelp) \/ Answered(InAssist))) =>
       /\ Includes(ContentText(events'[1].response.content),
                   <<"a", "s", "s", "i", "s", "t">>)
       /\ events'[1].response.confidence > 5000]_vars

\* C14 witness: after a reset, one call on 'Assist me' has been answered from the
\* help template, with 'assist' in the text and confidence above 0.5.
C14_Witness ==
  /\ stateObj = 1
  /\ Len(cognitiveState.adaptationHistory) = 1
  /\ Len(events) = 1 /\ IsCognition(events[1])
  /\ events[1].input = InAssist
  /\ events[1].response.content.template = "help"
  /\ Includes(ContentText(events[1].response.content), <<"a", "s", "s", "i", "s", "t">>)
  /\ events[1].response.confidence > 5000

\* The seed dialog pattern is in the pattern library
SeedDialogPattern ==
  /\ MapHas(patternMatchers, "dialog_management")
  /\ MapGet(patternMatchers, "dialog_management") = initializeBasicPatterns[2]

\* C15: a call whose input has the dialog flag set, made while the seed
\* dialog_management pattern is in the library, lists 'dialog_management' among the
\* active patterns of its response metadata, whatever came before the call.
C15_DialogPatternActive ==
  [][(/\ SeedDialogPattern
      /\ Len(events') = 1
      /\ IsCognition(events'[1])
      /\ events'[1].input.dialog) =>
       InSeq("dialog_management", events'[1].response.metadata.activePatterns)]_vars

\* C15 witness: after a first call and the removal of the intent pattern, a call
\* with the dialog flag has been answered with dialog_management active.
C15_Witness ==
  /\ SeedDialogPattern
  /\ ~MapHas(patternMatchers, "intent_recognition")
  /\ Len(cognitiveState.adaptationHistory) = 2
  /\ Len(events) = 1 /\ IsCognition(events[1])
  /\ events[1].input = InDialog
  /\ InSeq("dialog_management", events[1].response.metadata.activePatterns)

(***************************************************************************)
(* Claims about emergent behaviors                                         *)
(***************************************************************************)
\* The step is a run of the emergence cycle
EmergencePass == timers'.emergence = timers.emergence + 1

\* How many events of that name the step emitted for that id
Emitted(name, id) ==
  Cardinality({j \in 1..Len(archEvents') :
                 archEvents'[j].name = name /\ archEvents'[j].id = id})

\* The behavior is gone after the step, with one removal event
RemovedOnce(id) ==
  /\ ~MapHas(emergentBehaviors', id)
  /\ Emitted("emergent_behavior_removed", id) = 1

\* C16 (as claimed): a registered behavior whose utility field has been forced
\* below 0.3 is removed by the next evaluation pass, with exactly one
\* emergent_behavior_removed event.
C16_ForcedUtilityRemoved ==
  [][EmergencePass =>
       \A k \in 1..Len(emergentBehaviors) :
         Less(emergentBehaviors[k].utility, 3000) =>
           RemovedOnce(emergentBehaviors[k].id)]_vars

\* 0.3 * strength + 0.3 * stability + 0.2 * novelty + 0.2 * synergyLevel < 0.3
ScoresBelowThreshold(behavior) ==
  /\ ~IsNaN(architecturalState.synergyLevel)
  /\ 3 * behavior.strength + 3 * behavior.stability + 2 * behavior.novelty
       + 2 * architecturalState.synergyLevel < 3 * SCALE

\* C16 (amended): a registered behavior whose utility, as the evaluation pass
\* computes it from the behavior's strength, stability and novelty and the system
\* synergy level, is below 0.3 is removed by the next evaluation pass, with
\* exactly one emergent_behavior_removed event; a behavior the pass scores at 0.3
\* or more stays, whatever its utility field held before.
C16_LowUtilityRemoved ==
  [][EmergencePass =>
       \A k \in 1..Len(emergentBehaviors) :
         IF ScoresBelowThreshold(emergentBehaviors[k])
           THEN RemovedOnce(emergentBehaviors[k].id)
           ELSE /\ MapHas(emergentBehaviors', emergentBehaviors[k].id)
                /\ Emitted("emergent_behavior_removed", emergentBehaviors[k].id) = 0]_vars

\* C16 witness: the emergence cycle has just removed a behavior that an earlier
\* cycle registered, and has emitted the removal event.
C16_Witness ==
  /\ lastCycle = "emergence"
  /\ timers.emergence = 2
  /\ \E j \in 1..Len(archEvents) :
       /\ archEvents[j].name = "emergent_behavior_removed"
       /\ archEvents[j].id.cycle = 1
       /\ ~MapHas(emergentBehaviors, archEvents[j].id)

\* The stabilization pass promotes the behavior: it reads the utility the
\* evaluation pass of the same cycle has just stored
Promotable(behavior) == Greater(behavior.utility, 7000) /\ behavior.stability > 8000

\* 'pattern_' + behavior.id
PatternIdOf(behavior) == Id("pattern_emergence", behavior.id.cycle, behavior.id.pair)

\* The pattern ids this step's promotions use
PromotedIds ==
  {PatternIdOf(emergentBehaviors'[k]) :
     k \in {j \in 1..Len(emergentBehaviors') : Promotable(emergentBehaviors'[j])}}

\* C17: in a run of the emergence cycle, a behavior is promoted exactly when its
\* utility is above 0.7 and its stability above 0.8; it stays in the behavior
\* registry; the pattern library then holds exactly one pattern keyed 'pattern_' +
\* its id, of topology 'emergent'; a behavior promoted before adds no further
\* pattern; patterns with other ids are as they were.
C17_PromotionAdditive ==
  [][EmergencePass =>
       /\ \A k \in 1..Len(emergentBehaviors') :
            LET behavior == emergentBehaviors'[k]
            IN Emitted("pattern_promoted", behavior.id) =
                 (IF Promotable(behavior) THEN 1 ELSE 0)
       /\ \A j \in 1..Len(archEvents') :
            archEvents'[j].name = "pattern_promoted" =>
              MapHas(emergentBehaviors', archEvents'[j].id)
       /\ \A id \in PromotedIds :
            /\ Cardinality({j \in 1..Len(patterns') : patterns'[j].id = id}) = 1
            /\ MapGet(patterns', id).topology = "emergent"
       /\ Len(patterns') =
            Len(patterns) + Cardinality({id \in PromotedIds : ~MapHas(patterns, id)})
       /\ \A j \in 1..Len(patterns) :
            patterns[j].id \notin PromotedIds => patterns'[j] = patterns[j]]_vars

\* C17 witness: the second emergence cycle has promoted again a behavior that
\* the first cycle registered and promoted; the behavior is in the registry and
\* the library holds the four seed patterns and one pattern for that behavior.
C17_Witness ==
  /\ lastCycle = "emergence"
  /\ timers.emergence = 2
  /\ \E k \in 1..Len(emergentBehaviors) :
       /\ emergentBehaviors[k].id.cycle = 1
       /\ Promotable(emergentBehaviors[k])
       /\ \E j \in 1..Len(archEvents) :
            /\ archEvents[j].name = "pattern_promoted"
            /\ archEvents[j].id = emergentBehaviors[k].id
       /\ Cardinality({j \in 1..Len(patterns) :
                         patterns[j].id = PatternIdOf(emergentBehaviors[k])}) = 1
  /\ SubSeq(patterns, 1, 4) = initializeArchitecturalPatterns(initializeCoreComponents)

(***************************************************************************)
(* Claims about the autonomous agents                                      *)
(***************************************************************************)
\* C18 (as claimed): with the agent scheduler ticking for ever, every goal in the
\* goal list of each seeded agent is its current goal infinitely often.
C18_GoalsCycle ==
  \A k \in 1..Len(initializeAutonomousAgents) :
    \A g \in 1..Len(initializeAutonomousAgents[k].goals) :
      []<>(autonomousAgents[k].state.currentGoal = initializeAutonomousAgents[k].goals[g])

\* The step is a run of the agent cycle
AgentPass == lastCycle' = "agents" /\ events' = <<>>

\* C19 (as claimed): while autonomous mode is disabled, a run of the agent cycle
\* changes no agent's progress or current goal and emits no agent_goal_completed
\* event.
C19_AutonomousModeStopsAgents ==
  [][(~autonomousMode /\ AgentPass) =>
       /\ \A k \in 1..Len(autonomousAgents) :
            /\ autonomousAgents'[k].state.progress = autonomousAgents[k].state.progress
            /\ autonomousAgents'[k].state.currentGoal
                 = autonomousAgents[k].state.currentGoal
       /\ \A j \in 1..Len(archEvents') :
            archEvents'[j].name # "agent_goal_completed"]_vars

(***************************************************************************)
(* Snapshots of the cognitive state                                        *)
(***************************************************************************)
\* The call's response is assembled and its metadata (like the payload of its
\* 'cognition' event) refers to the object this.cognitiveState still refers to
HoldsLiveState(c) ==
  /\ c.response # NoResponse
  /\ c.response.metadata.cognitiveState = stateObj

\* getCognitiveState(): { ...this.cognitiveState } copies the fields, so the copy
\* shares the activeNodes Set and the adaptationHistory array with the engine
getCognitiveState(cs) ==
  [activeNodes |-> cs.activeNodes, adaptationHistory |-> cs.adaptationHistory]

\* C20: a CognitiveState carried in a response's metadata, in the payload of a
\* 'cognition' event, or returned by getCognitiveState() shows the same content
\* after any later step of the engine (a further processInput, the learn step of
\* the same call): while the engine keeps its state object, no step changes what
\* the carried reference shows, nor the collections a copy shares.
C20_SnapshotsStable ==
  [][stateObj' = stateObj =>
       /\ \A i \in 1..Len(calls) :
            HoldsLiveState(calls[i]) => cognitiveState' = cognitiveState
       /\ getCognitiveState(cognitiveState') = getCognitiveState(cognitiveState)]_vars

(***************************************************************************)
(* Claims about configuration and registry calls                           *)
(***************************************************************************)
NoEventNamed(es, name) == \A k \in 1..Len(es) : es[k].name # name

\* C21: removeCognitivePattern(id) and removeComponent(id) with an id that is
\* not present are no-ops: the pattern library, the component registry and all
\* other state are unchanged, and the call emits no pattern_removed and no
\* component_removed event.
C21_RemoveAbsentIsNoOp ==
  [][/\ \A patternId \in PatternIds :
          (RemoveCognitivePattern(patternId) /\ ~MapHas(patternMatchers, patternId)) =>
            /\ UNCHANGED <<cogVars, archVars>>
            /\ NoEventNamed(events', "pattern_removed")
     /\ \A componentId \in ComponentIds :
          (RemoveComponent(componentId) /\ ~MapHas(components, componentId)) =>
            /\ UNCHANGED <<cogVars, components, patterns, emergentBehaviors,
                           autonomousAgents, architecturalState, autogenesisEnabled,
                           synergyThreshold, timers>>
            /\ NoEventNamed(archEvents', "component_removed")]_vars

\* The value the claim gives for a threshold t
ClampedThreshold(t) == IF IsNaN(t) THEN NaN ELSE Min(SCALE, Max(0, t))

\* C22: setAdaptationThreshold(t) and setSynergyThreshold(t) store
\* min(1, max(0, t)) for every number t, in range or not, and change nothing else.
C22_ThresholdsClamped ==
  [][\A t \in ThresholdInputs :
       /\ SetAdaptationThreshold(t) =>
            /\ adaptationThreshold' = ClampedThreshold(t)
            /\ UNCHANGED <<cognitiveState, stateObj, atomSpace, patternMatchers,
                           autonomousMode, learningEnabled, clock, calls, queue>>
            /\ UNCHANGED archVars
       /\ SetSynergyThreshold(t) =>
            /\ synergyThreshold' = ClampedThreshold(t)
            /\ UNCHANGED <<cogVars, components, patterns, emergentBehaviors,
                           autonomousAgents, architecturalState, autogenesisEnabled,
                           timers>>]_vars

\* Both setters have been called with a number outside [0, 1]
C22_Witness ==
  /\ adaptationThreshold = SCALE
  /\ synergyThreshold = 0
  /\ lastCycle = "setSynergyThreshold"
  /\ events = <<>>

(***************************************************************************)
(* Claims about the evolution cycle                                        *)
(***************************************************************************)
\* What an evolution may change in the registry: each component's efficiency and
\* load and the strength of each of its connections
EvolvedFields(comps) ==
  [i \in 1..Len(comps) |->
     [id |-> comps[i].id,
      efficiency |-> comps[i].state.efficiency,
      load |-> comps[i].state.load,
      strengths |-> [k \in 1..Len(comps[i].connections) |->
                       comps[i].connections[k].strength]]]

EvolutionEvents(es) == SelectSeq(es, LAMBDA e : e.name = "architecture_evolution")

\* The architecture asks for an evolution: synergy below the threshold or
\* coherence below 0.7
EvolutionDue ==
  planArchitecturalEvolution(architecturalState, synergyThreshold).shouldEvolve

\* C23: with autogenesis disabled an evolution tick leaves evolutionCount,
\* lastEvolution, every component's efficiency and load and every connection's
\* strength unchanged and emits no architecture_evolution event, whatever the
\* synergy level and the coherence are.
C23_DisabledEvolutionIsNoOp ==
  [][(EvolutionTick /\ ~autogenesisEnabled) =>
       /\ architecturalState'.evolutionCount = architecturalState.evolutionCount
       /\ architecturalState'.lastEvolution = architecturalState.lastEvolution
       /\ EvolvedFields(components') = EvolvedFields(components)
       /\ EvolutionEvents(archEvents') = <<>>]_vars

\* An evolution tick has just run with autogenesis disabled on an architecture
\* that asks for an evolution
C23_Witness ==
  /\ lastCycle = "evolution"
  /\ ~autogenesisEnabled
  /\ EvolutionDue
  /\ architecturalState.evolutionCount = 0

\* An evolution tick that applies an evolution
EvolutionApplied == EvolutionTick /\ autogenesisEnabled /\ EvolutionDue

\* C24: evolutionCount never decreases; an evolution tick that applies an
\* evolution raises it by exactly 1, stamps lastEvolution with the time of the
\* tick and emits exactly one architecture_evolution event; every other step
\* leaves evolutionCount and lastEvolution unchanged.
C24_EvolutionCountMonotone ==
  [][/\ architecturalState'.evolutionCount >= architecturalState.evolutionCount
     /\ EvolutionApplied =>
          /\ architecturalState'.evolutionCount = architecturalState.evolutionCount + 1
          /\ architecturalState'.lastEvolution = Now(timers)
          /\ Len(EvolutionEvents(archEvents')) = 1
     /\ ~EvolutionApplied =>
          /\ architecturalState'.evolutionCount = architecturalState.evolutionCount
          /\ architecturalState'.lastEvolution = architecturalState.lastEvolution]_vars

\* Two evolutions have been applied, the second later than the first, and other
\* cycles have run since
C24_Witness ==
  /\ architecturalState.evolutionCount = 2
  /\ architecturalState.lastEvolution = 2 * HealthPeriod
  /\ lastCycle = "emergence"

\* The mean load of the registered components
MeanLoad(comps) ==
  Div(SumSeq([i \in 1..Len(comps) |-> comps[i].state.load]), Len(comps))

\* Neither condition of an improvement holds: synergy at or above the threshold
\* and coherence at or above 0.7
NothingToImprove ==
  /\ ~IsNaN(architecturalState.synergyLevel)
  /\ ~IsNaN(architecturalState.coherence)
  /\ architecturalState.synergyLevel >= synergyThreshold
  /\ architecturalState.coherence >= 7000

\* C25: an evolution tick with autogenesis enabled, synergyLevel >= synergyThreshold
\* and coherence >= 0.7 applies the load-rebalancing pass: every component loaded
\* above 1.2 times the mean load has its load reduced by 0.1, evolutionCount is
\* incremented and one architecture_evolution event is emitted.
C25_LoadRebalancingApplied ==
  [][(EvolutionTick /\ autogenesisEnabled /\ NothingToImprove) =>
       /\ architecturalState'.evolutionCount = architecturalState.evolutionCount + 1
       /\ Len(EvolutionEvents(archEvents')) = 1
       /\ \A i \in 1..Len(components) :
            components[i].state.load > (MeanLoad(components) * 6) \div 5 =>
              components'[i].state.load = components[i].state.load - 1000]_vars

\* Both conditions of an improvement hold
BothLow ==
  /\ Less(architecturalState.synergyLevel, synergyThreshold)
  /\ Less(architecturalState.coherence, 7000)

\* C26: an evolution tick with autogenesis enabled, synergyLevel < synergyThreshold
\* and coherence < 0.7 applies both improvements: every connection with
\* reliability > 0.9 gains 0.05 strength (cap 1.0) and a tenth of its bandwidth
\* (cap 2000), and every component's efficiency rises by 0.02 (cap 1.0) and its
\* adaptationRate drops by 0.01 (floor 0.05); the rest of the tick
\* (optimizeConnections, adaptComponentBehavior) then runs on that result.
C26_BothImprovementsApplied ==
  [][(EvolutionTick /\ autogenesisEnabled /\ BothLow) =>
       /\ \A i \in 1..Len(components) :
            /\ components'[i].state.efficiency =
                 Min(SCALE, components[i].state.efficiency + 200)
            /\ \A k \in 1..Len(components[i].connections) :
                 components[i].connections[k].reliability > 9000 =>
                   components'[i].connections[k].strength =
                     Min(SCALE, components[i].connections[k].strength + 500)
       /\ components' =
            adaptComponentBehavior(
              optimizeConnections(improveCoherence(improveSynergy(components))))]_vars

(***************************************************************************)
(* Claims about the state update of processInput                           *)
(***************************************************************************)
\* The step is an awaited processInput call that resolved
CallAnswered == Len(events') = 1 /\ IsCognition(events'[1])

\* C27: while learning is disabled, a processInput call that runs from start to
\* finish leaves the adaptation history and the learning rate unchanged, and
\* still adds the relevant nodes to the active set, recomputes the attentional
\* focus and the synergy level, and returns a response.
C27_NoLearningWhenDisabled ==
  [][(CallAnswered /\ ~learningEnabled) =>
       /\ cognitiveState'.adaptationHistory = cognitiveState.adaptationHistory
       /\ cognitiveState'.learningRate = cognitiveState.learningRate
       /\ cognitiveState'.activeNodes =
            SetAddAll(cognitiveState.activeNodes, findRelevantNodes(events'[1].input))
       /\ cognitiveState'.attentionalFocus =
            SliceFirst(SortDesc(cognitiveState'.activeNodes, atomSpace'), FocusSize)
       /\ cognitiveState'.synergyLevel =
            calculateSynergyLevel(cognitiveState', patternMatchers).synergyLevel
       /\ events'[1].response.type = "cognitive_response"]_vars

\* A call has resolved with learning disabled: it activated nodes and moved the
\* synergy level, and no adaptation was ever recorded
C27_Witness ==
  /\ ~learningEnabled
  /\ Len(events) = 1
  /\ IsCognition(events[1])
  /\ cognitiveState.activeNodes # <<>>
  /\ cognitiveState.synergyLevel # SeedCognitiveState.synergyLevel
  /\ cognitiveState.adaptationHistory = <<>>
  /\ cognitiveState.learningRate = SeedCognitiveState.learningRate

(***************************************************************************)
(* Claims about the intent and the template                                *)
(***************************************************************************)
\* The intent the keyword scan gives for a text, by priority
ClaimedIntent(chars) ==
  LET text == ToLowerCase(chars)
  IN IF Includes(text, <<"h", "e", "l", "p">>)
          \/ Includes(text, <<"a", "s", "s", "i", "s", "t">>) THEN "help_request"
     ELSE IF Includes(text, <<"b", "y", "e">>)
          \/ Includes(text, <<"g", "o", "o", "d", "b", "y", "e">>) THEN "farewell"
     ELSE IF Includes(text, <<"h", "e", "l", "l", "o">>)
          \/ Includes(text, <<"h", "i">>) THEN "greeting"
     ELSE "general"

ClaimedTemplate(intent) ==
  CASE intent = "help_request" -> "help"
    [] intent = "farewell" -> "farewell"
    [] intent = "greeting" -> "greeting"
    [] OTHER -> "general"

\* C28: in every reachable state, also after removeCognitivePattern and
\* addCognitivePattern, the answer to an input with a string text is the template
\* of the intent the keyword scan gives: help or assist, else bye or goodbye, else
\* hello or hi, else general.
C28_IntentByKeywordScan ==
  [][\A input \in IntentInputs :
       Answered(input) =>
         events'[1].response.content.template =
           ClaimedTemplate(ClaimedIntent(input.text.chars))]_vars

\* The activation the claim gives a pattern: the mean of strength x confidence
\* over its member nodes that are in the active set, 0 if there is none
ClaimedActivation(pattern, active) ==
  LET members == {i \in 1..Len(pattern.nodes) : InSeq(pattern.nodes[i].id, active)}
      products == [i \in 1..Len(pattern.nodes) |->
                     IF i \in members
                       THEN Mul(pattern.nodes[i].strength, pattern.nodes[i].confidence)
                       ELSE 0]
  IN IF members = {} THEN 0 ELSE SumSeq(products) \div Cardinality(members)

\* The patterns whose activation is strictly above their threshold, by position
AboveThreshold(pm, active) ==
  {i \in 1..Len(pm) : ClaimedActivation(pm[i], active) > pm[i].activationThreshold}

ClaimedSynergy(pm, active) ==
  LET above == AboveThreshold(pm, active)
      products == [i \in 1..Len(pm) |->
                     IF i \in above
                       THEN Mul(pm[i].synergyScore, ClaimedActivation(pm[i], active))
                       ELSE 0]
  IN IF above = {} THEN SCALE \div 2 ELSE SumSeq(products) \div Cardinality(above)

\* C29: after a processInput call the synergy level is the mean of
\* synergyScore x activation over exactly the patterns whose activation is
\* strictly above their threshold, 0.5 when there is none, and the response lists
\* exactly the ids of those patterns as active.
C29_SynergyLevelIsMean ==
  [][CallAnswered =>
       LET above == AboveThreshold(patternMatchers, cognitiveState'.activeNodes)
           listed == events'[1].response.metadata.activePatterns
       IN /\ cognitiveState'.synergyLevel =
               ClaimedSynergy(patternMatchers, cognitiveState'.activeNodes)
          /\ events'[1].response.synergyLevel = cognitiveState'.synergyLevel
          /\ Range(listed) = {patternMatchers[i].id : i \in above}
          /\ Len(listed) = Cardinality(above)]_vars

\* A call has resolved with some of the patterns above their threshold and
\* others not
C29_Witness ==
  /\ Len(events) = 1
  /\ IsCognition(events[1])
  /\ events[1].response.metadata.activePatterns # <<>>
  /\ Len(events[1].response.metadata.activePatterns) < Len(patternMatchers)
  /\ cognitiveState.synergyLevel # SCALE \div 2

\* C30: a processInput call marks the nodes relevant to its input as active and
\* raises the short-term attention of each of them by 0.1, capped at 1.0: after
\* the call every relevant node is active and its short-term attention, as the
\* engine reads it, is min(1.0, its value before the call + 0.1).
C30_AttentionRaised ==
  [][CallAnswered =>
       \A id \in Range(findRelevantNodes(events'[1].input)) :
         /\ InSeq(id, cognitiveState'.activeNodes)
         /\ Importance(atomSpace', id) = Min(SCALE, Importance(atomSpace, id) + 1000)]_vars

(***************************************************************************)
(* Claims about the learn step and the attentional focus                   *)
(***************************************************************************)
\* The effectiveness the learn step of the call recorded
RecordedEffectiveness(cs) == cs.adaptationHistory[Len(cs.adaptationHistory)].effectiveness

\* C31: a learn step adjusts the truth values of every active node: strength by
\* (effectiveness - 0.5) x learningRate and confidence by half of that, both
\* clamped to [0, 1], long-term attention by 0.05 (cap 1.0) when effectiveness is
\* above 0.7; the nodes a pattern activation is computed over carry the adjusted
\* values after the call.
C31_LearnStepAdjustsNodes ==
  [][(CallAnswered /\ learningEnabled) =>
       LET effectiveness == RecordedEffectiveness(cognitiveState')
           adjustment == Mul(effectiveness - 5000, cognitiveState'.learningRate)
       IN \A p \in 1..Len(patternMatchers) :
            \A n \in 1..Len(patternMatchers[p].nodes) :
              LET before == patternMatchers[p].nodes[n]
                  after == patternMatchers'[p].nodes[n]
              IN InSeq(before.id, cognitiveState'.activeNodes) =>
                   /\ after.strength = Max(0, Min(SCALE, before.strength + adjustment))
                   /\ after.confidence =
                        Max(0, Min(SCALE, before.confidence + adjustment \div 2))
                   /\ after.longTermImportance =
                        IF effectiveness > 7000
                          THEN Min(SCALE, before.longTermImportance + 500)
                          ELSE before.longTermImportance]_vars

NextGoal(agent, goal) == agent.goals[(IndexOf(agent.goals, goal) % Len(agent.goals)) + 1]

\* The agent_goal_completed events of the tick that name the agent
CompletionEvents(es, agent) ==
  SelectSeq(es, LAMBDA e : e.name = "agent_goal_completed" /\ e.id.name = agent.id)

\* The agent's progress reaches 1 in the tick that starts from the agent as given
ReachesOne(agent) == executeAgentGoals(agent).state.progress >= SCALE

\* The agents as they are, with agent k switched off
SwitchedOff(agents, k) == [agents EXCEPT ![k].state.active = FALSE]

\* C33: at the end of every agent tick each agent's current goal is one of its
\* goals, its progress is in [0, 1), its experience is in [0, 1] and not lower
\* than before; an agent whose progress reached 1 in the tick has progress 0,
\* has moved to the next goal of its list (cyclically), and exactly one
\* agent_goal_completed event names it, the completed goal and the new goal;
\* an agent that does not reach 1 keeps its goal and gets no such event; the
\* execution step leaves a switched-off agent as it is.
C33_AgentTickSafety ==
  [][AgentPass =>
       \A k \in 1..Len(autonomousAgents) :
         LET before == autonomousAgents[k]
             after == autonomousAgents'[k]
             named == CompletionEvents(archEvents', before)
             off == SwitchedOff(autonomousAgents, k)
         IN /\ InSeq(after.state.currentGoal, after.goals)
            /\ after.state.progress >= 0 /\ after.state.progress < SCALE
            /\ after.state.experience >= before.state.experience
            /\ after.state.experience >= 0 /\ after.state.experience <= SCALE
            /\ ReachesOne(before) =>
                 /\ after.state.progress = 0
                 /\ after.state.currentGoal = NextGoal(before, before.state.currentGoal)
                 /\ Len(named) = 1
                 /\ named[1].value = [completedGoal |-> before.state.currentGoal,
                                      newGoal |-> after.state.currentGoal]
            /\ ~ReachesOne(before) =>
                 /\ after.state.currentGoal = before.state.currentGoal
                 /\ named = <<>>
            /\ executeAutonomousAgents(off).agents[k] = off[k]
            /\ CompletionEvents(executeAutonomousAgents(off).events, before) = <<>>]_vars

\* The orchestrator agent has just completed its last goal and is back at its first
C33_Witness ==
  /\ lastCycle = "agents"
  /\ \E j \in 1..Len(archEvents) :
       /\ archEvents[j].name = "agent_goal_completed"
       /\ archEvents[j].id.name = "orchestrator_agent"
       /\ archEvents[j].value = [completedGoal |-> "ensure_resilience",
                                 newGoal |-> "optimize_performance"]
  /\ autonomousAgents[1].state.currentGoal = "optimize_performance"
  /\ autonomousAgents[1].state.progress = 0

\* The keys of a knowledge map, as a set
KeySet(knowledge) == {knowledge[i].id : i \in 1..Len(knowledge)}

\* The keys held by any of the agents
AllKeys(agents) == UNION {KeySet(agents[k].state.knowledge) : k \in 1..Len(agents)}

\* C34: the coordination pass of an agent tick is a union that never overwrites:
\* with the agents as the execution step left them, after the pass every agent
\* holds exactly the keys that any agent held before it, and every key an agent
\* already held maps to the value it had.  The tick then sets 'system_state' for
\* every agent, so the state after the tick shows the union with that one key
\* added and every other key an agent held unchanged.
C34_CoordinationIsUnion ==
  [][AgentPass =>
       LET executed == executeAutonomousAgents(autonomousAgents).agents
           coordinated == coordinateAgentActivities(executed)
       IN \A k \in 1..Len(autonomousAgents) :
            LET held == executed[k].state.knowledge
                shared == coordinated[k].state.knowledge
                after == autonomousAgents'[k].state.knowledge
            IN /\ KeySet(shared) = AllKeys(executed)
               /\ Len(shared) = Cardinality(KeySet(shared))
               /\ \A i \in 1..Len(held) : MapGet(shared, held[i].id) = held[i]
               /\ KeySet(after) = AllKeys(executed) \cup {"system_state"}
               /\ \A i \in 1..Len(held) :
                    held[i].id # "system_state" => MapGet(after, held[i].id) = held[i]]_vars

\* After an agent tick the orchestrator agent holds the analyzer's and the
\* learner's keys next to its own, and its own 'component_status' as seeded
C34_Witness ==
  /\ lastCycle = "agents"
  /\ MapHas(autonomousAgents[1].state.knowledge, "performance_history")
  /\ MapHas(autonomousAgents[1].state.knowledge, "identified_issues")
  /\ MapHas(autonomousAgents[1].state.knowledge, "accuracy_metrics")
  /\ MapGet(autonomousAgents[1].state.knowledge, "component_status")
       = KText("component_status", "good")

(***************************************************************************)
(* Claims about the growth of the active set                               *)
(***************************************************************************)
SeedNodeIds ==
  {n.id : n \in Range(createIntentNodes) \cup Range(createDialogNodes)
                 \cup Range(createResponseNodes)}

\* No step but reset() takes a node id out of the active set, and the set holds
\* seed node ids only, each once
ActiveSetGrows ==
  /\ stateObj' = stateObj =>
       \A i \in 1..Len(cognitiveState.activeNodes) :
         InSeq(cognitiveState.activeNodes[i], cognitiveState'.activeNodes)
  /\ Range(cognitiveState'.activeNodes) \subseteq SeedNodeIds
  /\ Len(cognitiveState'.activeNodes) = Cardinality(Range(cognitiveState'.activeNodes))
  /\ Len(cognitiveState'.activeNodes) <= 7

\* The member nodes of the pattern that are in the active set
ActiveMembers(cs, pattern) == {n.id : n \in {m \in Range(pattern.nodes) : InSeq(m.id, cs.activeNodes)}}

\* C35 (as claimed): between two resets the active set only grows and holds at
\* most the 7 seed node ids, and a pattern whose activation exceeds its threshold
\* is still above it after every later processInput, until reset() or a change
\* of that pattern.  The pattern is taken as a call has just found it: the step
\* before was a processInput too.
C35_ActivationStaysAbove ==
  [][/\ ActiveSetGrows
     /\ (CallAnswered /\ Len(events) = 1 /\ IsCognition(events[1])) =>
          \A p \in 1..Len(patternMatchers) :
            IsActivePattern(cognitiveState, patternMatchers[p])
              => IsActivePattern(cognitiveState', patternMatchers'[p])]_vars

\* C35 (amended): between two resets the active set only grows and holds at most
\* the 7 seed node ids; a pattern whose activation exceeds its threshold is still
\* above it after a processInput that activates no further member node of it,
\* as is every seed pattern after any processInput.
C35_ActivationStaysAboveWhileMembersSame ==
  [][/\ ActiveSetGrows
     /\ CallAnswered =>
          \A p \in 1..Len(patternMatchers) :
            LET before == patternMatchers[p]
                after == patternMatchers'[p]
            IN (/\ IsActivePattern(cognitiveState, before)
                /\ \/ ActiveMembers(cognitiveState', after) = ActiveMembers(cognitiveState, before)
                   \/ before \in Range(initializeBasicPatterns))
                 => IsActivePattern(cognitiveState', after)]_vars

\* All seven seed nodes are active after a call, the pattern over two groups is
\* registered, and the seed dialog pattern is above its threshold
C35_Witness ==
  /\ Len(events) = 1 /\ IsCognition(events[1])
  /\ Len(cognitiveState.activeNodes) = 7
  /\ MapHas(patternMatchers, TurnTakingPattern.id)
  /\ IsActivePattern(cognitiveState, MapGet(patternMatchers, "dialog_management"))

(***************************************************************************)
(* Claims about the ceiling of the effectiveness                           *)
(***************************************************************************)
\* C36: with only the three seed patterns in the library, the effectiveness a
\* processInput call records is never above 0.8, and the learning rate is never
\* above its seeded value 0.1.
C36_EffectivenessCeiling ==
  [][patternMatchers = initializeBasicPatterns =>
       /\ CallAnswered => RecordedEffectiveness(cognitiveState') <= 8000
       /\ cognitiveState'.learningRate <= SeedCognitiveState.learningRate]_vars

\* A call that took no time has just answered a request for help inside a dialog
\* with all seven nodes active: the effectiveness it recorded is above 0.75
C36_Witness ==
  /\ Len(events) = 1 /\ IsCognition(events[1])
  /\ patternMatchers = initializeBasicPatterns
  /\ Len(cognitiveState.activeNodes) = 7
  /\ cognitiveState.adaptationHistory # <<>>
  /\ RecordedEffectiveness(cognitiveState) > 7500

(***************************************************************************)
(* Claims about the retention of emergent behaviors                        *)
(***************************************************************************)
\* The scores the detection pass requires of a behavior it registers
DetectionScores(behavior) ==
  /\ behavior.strength > 8000
  /\ behavior.stability > 7000
  /\ behavior.novelty > 6000

\* C37: no registered emergent behavior is ever removed: every registered
\* behavior has strength > 0.8, stability > 0.7 and novelty > 0.6; no step changes
\* these three fields of a registered behavior; no utility-evaluation pass scores
\* a behavior below 0.3; the number of registered behaviors never decreases and no
\* emergent_behavior_removed event is emitted.
C37_BehaviorsNeverRemoved ==
  [][/\ Len(emergentBehaviors') >= Len(emergentBehaviors)
     /\ \A k \in 1..Len(emergentBehaviors) :
          /\ emergentBehaviors'[k].id = emergentBehaviors[k].id
          /\ emergentBehaviors'[k].strength = emergentBehaviors[k].strength
          /\ emergentBehaviors'[k].stability = emergentBehaviors[k].stability
          /\ emergentBehaviors'[k].novelty = emergentBehaviors[k].novelty
     /\ \A k \in 1..Len(emergentBehaviors') : DetectionScores(emergentBehaviors'[k])
     /\ EmergencePass =>
          \A k \in 1..Len(emergentBehaviors') :
            ~Less(emergentBehaviors'[k].utility, 3000)
     /\ NoEventNamed(archEvents', "emergent_behavior_removed")]_vars

\* The second emergence cycle has just scored a behavior that the first cycle
\* registered, and the behavior is still in the registry
C37_Witness ==
  /\ lastCycle = "emergence"
  /\ timers.emergence = 2
  /\ \E k \in 1..Len(emergentBehaviors) : emergentBehaviors[k].id.cycle = 1

BesideConnectionTuning(comps) ==
  [i \in 1..Len(comps) |->
     [id |-> comps[i].id,
      type |-> comps[i].type,
      active |-> comps[i].state.active,
      load |-> comps[i].state.load,
      efficiency |-> comps[i].state.efficiency,
      errorCount |-> comps[i].state.errorCount,
      metrics |-> comps[i].metrics,
      connections |-> [k \in 1..Len(comps[i].connections) |->
                         [targetId |-> comps[i].connections[k].targetId,
                          connectionType |-> comps[i].connections[k].connectionType,
                          reliability |-> comps[i].connections[k].reliability]]]]

\* An evolution tick that applies a 'synergy_improvement' evolution
SynergyImprovementApplied ==
  /\ EvolutionApplied
  /\ planArchitecturalEvolution(architecturalState, synergyThreshold).type
       = "synergy_improvement"

\* The step is a health tick
HealthPass == timers'.health = timers.health + 1

\* Fixed-point quotients and products are cut to four decimals: the mean of the
\* products and the product of the mean differ by that much at most
RoundingSlack == 2

\* C39: connection parameters do not influence the synergy score.  An evolution
\* tick that applies a 'synergy_improvement' evolution, with the connection
\* tuning pass of the same tick, changes connection strength, bandwidth and
\* latency (and the tick's last pass the adaptation rates) and leaves every
\* component's efficiency, load and metrics and the synergy level and coherence
\* of the ArchitecturalState unchanged; so do the two passes applied to the
\* registry of any state.  After every health tick the synergy level is 0.9 times
\* the coherence; with an empty registry both are 0/0.
C39_ConnectionsDoNotAffectSynergy ==
  [][/\ SynergyImprovementApplied =>
          /\ BesideConnectionTuning(components') = BesideConnectionTuning(components)
          /\ architecturalState'.synergyLevel = architecturalState.synergyLevel
          /\ architecturalState'.coherence = architecturalState.coherence
     /\ BesideConnectionTuning(improveSynergy(components)) = BesideConnectionTuning(components)
     /\ BesideConnectionTuning(optimizeConnections(components))
          = BesideConnectionTuning(components)
     /\ HealthPass =>
          IF IsNaN(architecturalState'.coherence)
            THEN IsNaN(architecturalState'.synergyLevel)
            ELSE LET expected == Mul(architecturalState'.coherence, 9000)
                 IN /\ ~IsNaN(architecturalState'.synergyLevel)
                    /\ architecturalState'.synergyLevel - expected <= RoundingSlack
                    /\ expected - architecturalState'.synergyLevel <= RoundingSlack]_vars

\* A 'synergy_improvement' evolution has just been applied: some connection is
\* stronger than its seed, every efficiency is what the last health tick left,
\* and the synergy level is 0.9 times the coherence of that health tick
C39_Witness ==
  /\ lastCycle = "evolution"
  /\ \E j \in 1..Len(archEvents) :
       /\ archEvents[j].name = "architecture_evolution"
       /\ archEvents[j].id.name = "synergy_improvement"
  /\ \E i \in 1..Len(components) :
       \E k \in 1..Len(components[i].connections) :
         /\ MapHas(initializeCoreComponents, components[i].id)
         /\ k <= Len(MapGet(initializeCoreComponents, components[i].id).connections)
         /\ components[i].connections[k].strength
              > MapGet(initializeCoreComponents, components[i].id).connections[k].strength
  /\ timers.health >= 1
  /\ ~IsNaN(architecturalState.coherence)

====
